---- MODULE Spec2Model ----
(***************************************************************************)
(* Query routing, write replication and relay chain of the cluster:        *)
(*   trusted_host_script.py -> proxy_script.py -> manager_script.py or     *)
(*   worker_script.py, and manager_script.py -> every worker_script.py,    *)
(* and the inbound rules iac.py installs between the nodes.                *)
(* Every Flask handler is a sequence of steps of one request; the dev      *)
(* server (app.run) serves requests on threads, so steps of different      *)
(* requests interleave.  Strings of queries are sequences of characters.   *)
(***************************************************************************)
EXTENDS Integers, Sequences, FiniteSets, TLC

\* ------------------------------------------------------------------ bounds

\* Number of client requests in one behaviour.
MaxReq == 2

\* Number of policy changes by callers whose requests are not followed.
MaxPolicyChanges == 1

\* Finite probe latencies are 1..MaxLatency (time.time() differences).
MaxLatency == 2

\* ------------------------------------------------------------ characters

UpperLetters == <<"A","B","C","D","E","F","G","H","I","J","K","L","M",
                  "N","O","P","Q","R","S","T","U","V","W","X","Y","Z">>

LowerLetters == <<"a","b","c","d","e","f","g","h","i","j","k","l","m",
                  "n","o","p","q","r","s","t","u","v","w","x","y","z">>

\* str.strip() with no argument removes these from both ends.
Whitespace == {" ", "\t", "\n", "\r"}

\* str.lower() on one character.
LowerChar(c) ==
    IF \E i \in 1..Len(UpperLetters) : UpperLetters[i] = c
    THEN LowerLetters[CHOOSE i \in 1..Len(UpperLetters) : UpperLetters[i] = c]
    ELSE c

\* str.lower()
Lower(s) == [i \in 1..Len(s) |-> LowerChar(s[i])]

RECURSIVE LStrip(_)
LStrip(s) ==
    IF s # <<>> /\ Head(s) \in Whitespace THEN LStrip(Tail(s)) ELSE s

RECURSIVE RStrip(_)
RStrip(s) ==
    IF s # <<>> /\ s[Len(s)] \in Whitespace
    THEN RStrip(SubSeq(s, 1, Len(s) - 1))
    ELSE s

\* str.strip()
Strip(s) == RStrip(LStrip(s))

\* str.startswith(prefix)
StartsWith(s, prefix) ==
    /\ Len(prefix) <= Len(s)
    /\ SubSeq(s, 1, Len(prefix)) = prefix

\* The tuple ("insert", "update", "delete") of the three scripts.
WriteKeywords ==
    { <<"i","n","s","e","r","t">>,
      <<"u","p","d","a","t","e">>,
      <<"d","e","l","e","t","e">> }

\* str.startswith(tuple)
StartsWithAny(s, prefixes) == \E p \in prefixes : StartsWith(s, p)

\* Mutant of ProxyIsWriteQuery: the comparison is case-sensitive (no .lower()).
ProxyIsWriteQueryCaseSensitive(query) ==
    StartsWithAny(Strip(query), WriteKeywords)

\* proxy_script.py: is_write_query
ProxyIsWriteQuery(query) ==
    StartsWithAny(Lower(Strip(query)), WriteKeywords)

\* manager_script.py: is_write_query
\* Mutant of ManagerIsWriteQuery: every query is taken for a write.
ManagerIsWriteQueryAlways(query) == Len(query) >= 0

ManagerIsWriteQuery(query) ==
    StartsWithAny(Lower(Strip(query)), WriteKeywords)

\* worker_script.py: is_write_query
WorkerIsWriteQuery(query) ==
    StartsWithAny(Lower(Strip(query)), WriteKeywords)

\* ---------------------------------------------------------------- registry

\* public_ips.json as iac.py writes it: launch_instances() returns the two
\* workers first, then manager, proxy, trusted host and gatekeeper, and
\* json.dump keeps that order.
PublicIps == <<"worker1", "worker2", "manager", "proxy", "trusted_host", "gatekeeper">>

\* The text before the digits of a registry name: what name.startswith tests.
NamePrefix ==
    [worker1 |-> "worker", worker2 |-> "worker", manager |-> "manager",
     proxy |-> "proxy", trusted_host |-> "trusted_host", gatekeeper |-> "gatekeeper"]

\* proxy_script.py: the filter applied to the loaded registry, which keeps
\* the keys starting with worker or manager, in their order.
ProxyFilter(registry) ==
    SelectSeq(registry, LAMBDA n : NamePrefix[n] \in {"worker", "manager"})

\* proxy_script.py: public_ips after the filter.
ProxyPublicIps == ProxyFilter(PublicIps)

\* proxy_script.py: the keys of worker_ips, those of public_ips starting with
\* "worker".
WorkerKeys(pub) == SelectSeq(pub, LAMBDA n : NamePrefix[n] = "worker")

\* proxy_script.py: worker_ips of the RANDOM and CUSTOMIZED branches.
WorkerIps == WorkerKeys(ProxyPublicIps)

\* Mutant of RandomChoice: with no worker to choose from, the manager is taken.
RandomChoiceOrManager(keys) ==
    IF Len(keys) = 0 THEN {[raised |-> FALSE, target |-> "manager"]}
    ELSE {[raised |-> FALSE, target |-> keys[i]] : i \in 1..Len(keys)}

\* random.choice(list(worker_ips.keys())): any of the keys, or IndexError
\* when there is none.
RandomChoice(keys) ==
    IF Len(keys) = 0 THEN {[raised |-> TRUE, target |-> "none"]}
    ELSE {[raised |-> FALSE, target |-> keys[i]] : i \in 1..Len(keys)}

\* Mutant of ManagerSkips: the loop does not skip the manager's own entry.
ManagerSkipsOthersOnly(name) == NamePrefix[name] \notin {"worker", "manager"}

\* manager_script.py: `if not name.startswith("worker"): continue`
ManagerSkips(name) == NamePrefix[name] # "worker"

\* Nodes that run a data engine.
DataNodes == {"manager"} \cup {PublicIps[i] : i \in {j \in 1..Len(PublicIps) : NamePrefix[PublicIps[j]] = "worker"}}

WorkerNodes == DataNodes \ {"manager"}

\* ------------------------------------------------------- requests, bodies

Modes == {"DIRECT_HIT", "RANDOM", "CUSTOMIZED"}

QSelect == <<"S","E","L","E","C","T">>
QInsert == <<"I","N","S","E","R","T"," ","1">>
QUpdate == <<" ","u","p","d","a","t","e">>
QDrop == <<"D","R","O","P">>

\* Query strings clients send; <<>> is the empty string.
Queries == {<<>>, QSelect, QInsert, QUpdate, QDrop}

\* A JSON request body: has = the key is present, val = its value.
\* data.get(key) is None when has is FALSE.
QueryBodies ==
    {[has |-> FALSE, val |-> <<>>]} \cup {[has |-> TRUE, val |-> q] : q \in Queries}

ModeBodies ==
    {[has |-> FALSE, val |-> "None"]} \cup
    {[has |-> TRUE, val |-> m] : m \in Modes \cup {"bogus"}}

NoBody == [has |-> FALSE, val |-> <<>>]

\* data.get("mode"): the value, or None
ModeGet(data) == IF data.has THEN data.val ELSE "None"

\* Mutant of NotQuery: only a missing key is rejected, not the empty string.
NotQueryNoneOnly(data) == ~data.has

\* Python's `not query` for data.get("query"): None or the empty string.
NotQuery(data) == ~data.has \/ Len(data.val) = 0

\* An HTTP response.
Resp(status, body) == [status |-> status, body |-> body]

\* No response yet.
NoResp == [status |-> 0, body |-> [none |-> TRUE]]

ErrNoQuery == [error |-> "No query provided"]

ErrInvalidMode == [error |-> "Invalid mode"]

\* jsonify({"error": str(e)})
ErrExc(e) == [error |-> e]

\* What Flask answers when a view raises or returns None: 500 with an HTML page.
FlaskError == Resp(500, [html |-> "Internal Server Error"])

\* response.json() succeeds only on a JSON body.
IsJson(body) == "html" \notin DOMAIN body

IsErrorBody(body) == "error" \in DOMAIN body

\* ------------------------------------------------------------ data engine

\* Leading words of statements the engine commits by itself when it executes
\* them (data definition: no conn.commit() is needed for their effect).
SelfCommitting == { <<"d","r","o","p">> }

\* cursor.execute(query) of a statement that changes the engine's data with
\* no commit by the caller.
ImplicitCommit(query) == StartsWithAny(Lower(Strip(query)), SelfCommitting)

\* --------------------------------------------------------- worker handler

\* An event of a request's history: node `by` did `ev` to or at `node`.
Ev(by, ev, node, info) == [by |-> by, ev |-> ev, node |-> node, info |-> info]

\* worker_script.py query(): the whole handler, which makes no downstream call.
\* connOk: mysql.connector.connect succeeds; execOk: cursor.execute succeeds.
\* Gives the response, the node's write log and, for the history, whether a
\* connection was opened and closed.
WorkerQuery(self, data, wdb, connOk, execOk) ==
    IF NotQuery(data) THEN
        \* `return ..., 400` runs the finally block, where `conn` is unbound:
        \* UnboundLocalError replaces the return value.
        [resp |-> FlaskError, db |-> wdb, ddl |-> <<>>, opened |-> FALSE,
         closed |-> FALSE, events |-> <<>>]
    ELSE IF ~connOk THEN
        \* connect raises; the except block returns 500, then the finally
        \* block raises UnboundLocalError on `conn`.
        [resp |-> FlaskError, db |-> wdb, ddl |-> <<>>, opened |-> FALSE,
         closed |-> FALSE, events |-> <<Ev(self, "connfail", self, data.val)>>]
    ELSE IF ~execOk THEN
        [resp |-> Resp(500, ErrExc("ExecutionError")), db |-> wdb, ddl |-> <<>>,
         opened |-> TRUE, closed |-> TRUE,
         events |-> <<Ev(self, "open", self, data.val), Ev(self, "execfail", self, data.val),
                      Ev(self, "close", self, data.val)>>]
    ELSE IF WorkerIsWriteQuery(data.val) THEN
        [resp |-> Resp(200, [message |-> "Write query executed successfully"]),
         db |-> Append(wdb, data.val), ddl |-> <<>>, opened |-> TRUE, closed |-> TRUE,
         events |-> <<Ev(self, "open", self, data.val), Ev(self, "commit", self, data.val),
                      Ev(self, "close", self, data.val)>>]
    ELSE IF ImplicitCommit(data.val) THEN
        \* the read branch executes the statement, which takes effect, and
        \* cursor.fetchall() raises as there is no result set: except, finally
        [resp |-> Resp(500, ErrExc("InterfaceError")), db |-> wdb,
         ddl |-> <<data.val>>, opened |-> TRUE, closed |-> TRUE,
         events |-> <<Ev(self, "open", self, data.val), Ev(self, "autocommit", self, data.val),
                      Ev(self, "close", self, data.val)>>]
    ELSE
        [resp |-> Resp(200, [handled_by |-> "worker", query_result |-> wdb]),
         db |-> wdb, ddl |-> <<>>, opened |-> TRUE, closed |-> TRUE,
         events |-> <<Ev(self, "open", self, data.val), Ev(self, "read", self, data.val),
                      Ev(self, "close", self, data.val)>>]

\* ------------------------------------------------------------------ state

VARIABLES
    mode,      \* proxy_script.py: the module-level routing mode
    changes,   \* number of policy changes made by callers that are not followed
    seen,      \* per request: the modes that were active during its routing decision
    db,        \* per data node: the writes its engine has committed, in order
    schema,    \* per data node: the statements its engine committed by itself
    conns,     \* per data node: data-engine connections currently open
    req,       \* per request: where it enters, its operation and its body
    pc,        \* per request and layer: where that layer's handler stands
    inp,       \* per request and layer: the body the layer's handler received
    ret,       \* per request and layer: the response the layer's handler gave
    loc,       \* per request: locals of the proxy handler (branch, ping, target)
    idx,       \* per request: position of the manager's replication loop
    trace,     \* per request: history of calls, failures and engine operations
    cq,        \* classification check: the query string under test
    cls,       \* classification check: the classification each node computed
    reg,       \* registry check: the public_ips.json the proxy has loaded
    rsel,      \* registry check: the proxy's RANDOM read under that registry
    net        \* network check: per query, the hops admitted and the last attempt

vars == <<mode, changes, seen, db, schema, conns, req, pc, inp, ret, loc, idx, trace, cq, cls, reg, rsel, net>>

Req == 1..MaxReq

Layers == {"trusted_host", "proxy", "manager", "worker"}

\* Nodes a client request may be addressed to.
Entries == {"trusted_host", "proxy", "manager"} \cup WorkerNodes

LayerOf(node) == NamePrefix[node]

NoReq == [entry |-> "none", op |-> "none"]

NoLoc == [branch |-> "none", target |-> "none", ping |-> <<>>]

\* The registry check's read has not started.
NoSel == [pc |-> "idle", loc |-> NoLoc, resp |-> NoResp, sent |-> <<>>]

\* No connection has been attempted for a query.
NoAttempt == [src |-> "none", dst |-> "none", port |-> 0, admitted |-> FALSE]

\* The network check has not started: no query has made a hop.
NoNet == [q \in Req |-> [path |-> <<>>, last |-> NoAttempt]]

\* float("inf") of the probe loop: above every finite latency.
Inf == MaxLatency + 1

Init ==
    /\ mode = "DIRECT_HIT"
    /\ changes = 0
    /\ seen = [r \in Req |-> {}]
    /\ db = [n \in DataNodes |-> <<>>]
    /\ schema = [n \in DataNodes |-> <<>>]
    /\ conns = [n \in DataNodes |-> 0]
    /\ req = [r \in Req |-> NoReq]
    /\ pc = [r \in Req |-> [l \in Layers |-> "idle"]]
    /\ inp = [r \in Req |-> [l \in Layers |-> NoBody]]
    /\ ret = [r \in Req |-> [l \in Layers |-> NoResp]]
    /\ loc = [r \in Req |-> NoLoc]
    /\ idx = [r \in Req |-> 0]
    /\ trace = [r \in Req |-> <<>>]
    /\ cq = <<>>
    /\ cls = [n \in {"proxy", "manager", "worker"} |-> "none"]
    /\ reg = PublicIps
    /\ rsel = NoSel
    /\ net = NoNet

\* One call of a data node's /query by the proxy or the manager, the node
\* being a worker: the worker's handler runs to its end within the call.
WorkerCall(r, w, body, connOk, execOk) ==
    WorkerQuery(w, body, db[w], connOk, execOk)

\* The proxy's response once the target has answered:
\* response_data = {handled_by, result[, pings]}, response.status_code.
\* response.json() raises on a body that is not JSON, which the except
\* block turns into 500.
ProxyEnvelope(l, response) ==
    IF ~IsJson(response.body) THEN Resp(500, ErrExc("JSONDecodeError"))
    ELSE IF l.branch = "CUSTOMIZED"
    THEN Resp(response.status,
              [handled_by |-> l.target, result |-> response.body, pings |-> l.ping])
    ELSE Resp(response.status, [handled_by |-> l.target, result |-> response.body])

\* Mutant of MinPing: when every probe failed the manager is the target.
MinPingOrManager(ping) ==
    IF \A j \in 1..Len(ping) : ping[j] = Inf THEN "manager"
    ELSE WorkerIps[CHOOSE i \in 1..Len(ping) :
                      /\ \A j \in 1..Len(ping) : ping[i] <= ping[j]
                      /\ \A j \in 1..(i - 1) : ping[j] > ping[i]]

\* Mutant of MinPing: among the keys of least value the last one is taken.
MinPingLastTie(ping) ==
    WorkerIps[CHOOSE i \in 1..Len(ping) :
                /\ \A j \in 1..Len(ping) : ping[i] <= ping[j]
                /\ \A j \in (i + 1)..Len(ping) : ping[j] > ping[i]]

\* Mutant of ProbeValue: a probe that raised is recorded as the elapsed time
\* of the timeout, not as float("inf").
ProbeValueTimeoutElapsed(outcome) == IF outcome = 0 THEN MaxLatency ELSE outcome

\* Mutant of MinPing: the target is picked without regard to the probes.
MinPingIgnored(ping) == WorkerIps[1]

\* min(ping, key=ping.get): the first key, in insertion order, of least value.
MinPing(ping) ==
    WorkerIps[CHOOSE i \in 1..Len(ping) :
                /\ \A j \in 1..Len(ping) : ping[i] <= ping[j]
                /\ \A j \in 1..(i - 1) : ping[j] > ping[i]]

\* The value the probe loop records for one worker: the elapsed time, or
\* float("inf") when requests.get raises (timeout=2 or connection error).
ProbeValue(outcome) == IF outcome = 0 THEN Inf ELSE outcome

\* Outcomes of one probe: 0 = requests.get raised, else the elapsed time.
ProbeOutcomes == 0..MaxLatency

\* The history of the probe loop from worker i on: one probe per worker in
\* the order of worker_ips, followed by the exception when requests.get raised.
RECURSIVE ProbeLog(_, _)
ProbeLog(outcomes, i) ==
    IF i > Len(outcomes) THEN <<>>
    ELSE <<Ev("proxy", "probe", WorkerIps[i], <<>>)>>
         \o (IF outcomes[i] = 0
             THEN <<Ev("proxy", "probefail", WorkerIps[i], <<>>)>> ELSE <<>>)
         \o ProbeLog(outcomes, i + 1)

\* trusted_host_script.py query(): `return jsonify(response.json()), response.status_code`;
\* response.json() raises on a body that is not JSON, and the except block
\* answers 500.
ThQueryRelay(response) ==
    IF IsJson(response.body) THEN Resp(response.status, response.body)
    ELSE Resp(500, ErrExc("JSONDecodeError"))

\* trusted_host_script.py get_mode() and set_mode(): the same return
\* statement outside any try block, so the exception leaves the view.
ThModeRelay(response) ==
    IF IsJson(response.body) THEN Resp(response.status, response.body)
    ELSE FlaskError

\* A layer's handler ends with response `resp`.  The callers waiting on it
\* (requests.post is synchronous) run their return statements at once: the
\* proxy wraps the manager's response, the trusted host relays the proxy's.
Finish(r, layer, resp) ==
    LET pxWaits == layer = "manager" /\ pc[r]["proxy"] = "wait"
        pxResp == IF pxWaits THEN ProxyEnvelope(loc[r], resp) ELSE resp
        thWaits == pc[r]["trusted_host"] = "wait" /\ (layer = "proxy" \/ pxWaits)
        thResp == IF req[r].op = "query" THEN ThQueryRelay(pxResp)
                  ELSE ThModeRelay(pxResp)
    IN
    /\ pc' = [pc EXCEPT ![r] =
                [l \in Layers |->
                    IF l = layer \/ (l = "proxy" /\ pxWaits)
                       \/ (l = "trusted_host" /\ thWaits)
                    THEN "done" ELSE pc[r][l]]]
    /\ ret' = [ret EXCEPT ![r] =
                [l \in Layers |->
                    IF l = layer THEN resp
                    ELSE IF l = "proxy" /\ pxWaits THEN pxResp
                    ELSE IF l = "trusted_host" /\ thWaits THEN thResp
                    ELSE ret[r][l]]]

\* A layer's handler sends `body` to the next layer and waits for its response.
CallDown(r, layer, callee, body) ==
    /\ pc' = [pc EXCEPT ![r][layer] = "wait", ![r][callee] = "called"]
    /\ inp' = [inp EXCEPT ![r][callee] = body]

Log(r, events) == trace' = [trace EXCEPT ![r] = @ \o events]

\* A client sends a request to a node: POST /query, GET /mode or POST /mode.
Start(r) ==
    /\ req[r] = NoReq
    /\ \A s \in Req : s < r => req[s] # NoReq
    /\ \E entry \in Entries, op \in {"query", "get_mode", "set_mode"} :
         /\ op # "query" => entry \in {"trusted_host", "proxy"}
         /\ \E body \in (IF op = "query" THEN QueryBodies
                         ELSE IF op = "set_mode" THEN ModeBodies
                         ELSE {NoBody}) :
              /\ req' = [req EXCEPT ![r] = [entry |-> entry, op |-> op]]
              /\ pc' = [pc EXCEPT ![r][LayerOf(entry)] = "called"]
              /\ inp' = [inp EXCEPT ![r][LayerOf(entry)] = body]
    /\ UNCHANGED <<seen, changes, mode, db, conns, ret, loc, idx, trace, schema, cq, cls, reg, rsel, net>>

\* ----------------------------------------------------------- trusted host

\* trusted_host_script.py query(): up to and including requests.post.
ThQuery(r) ==
    /\ pc[r]["trusted_host"] = "called"
    /\ req[r].op = "query"
    /\ LET data == inp[r]["trusted_host"] IN
       IF NotQuery(data) THEN
            /\ Finish(r, "trusted_host", Resp(400, ErrNoQuery))
            /\ UNCHANGED <<inp, trace>>
       ELSE
            \/ /\ CallDown(r, "trusted_host", "proxy", [has |-> TRUE, val |-> data.val])
               /\ Log(r, <<Ev("trusted_host", "send", "proxy", data.val)>>)
               /\ UNCHANGED ret
            \/ \* requests.post raises: the proxy is unreachable
               /\ Finish(r, "trusted_host", Resp(500, ErrExc("ConnectionError")))
               /\ Log(r, <<Ev("trusted_host", "send", "proxy", data.val), Ev("trusted_host", "fail", "proxy", data.val)>>)
               /\ UNCHANGED inp
    /\ UNCHANGED <<seen, changes, mode, db, conns, req, loc, idx, schema, cq, cls, reg, rsel, net>>

\* trusted_host_script.py get_mode() and set_mode(): the call to the proxy.
\* Neither has a try block: an exception leaves the view.
ThMode(r) ==
    /\ pc[r]["trusted_host"] = "called"
    /\ req[r].op \in {"get_mode", "set_mode"}
    /\ LET data == inp[r]["trusted_host"]
           body == IF req[r].op = "set_mode"
                   THEN [has |-> TRUE, val |-> ModeGet(data)]
                   ELSE NoBody
       IN
            \/ /\ CallDown(r, "trusted_host", "proxy", body)
               /\ Log(r, <<Ev("trusted_host", req[r].op, "proxy", <<>>)>>)
               /\ UNCHANGED ret
            \/ /\ Finish(r, "trusted_host", FlaskError)
               /\ Log(r, <<Ev("trusted_host", req[r].op, "proxy", <<>>), Ev("trusted_host", "fail", "proxy", <<>>)>>)
               /\ UNCHANGED inp
    /\ UNCHANGED <<seen, changes, mode, db, conns, req, loc, idx, schema, cq, cls, reg, rsel, net>>

\* ------------------------------------------------------------------ proxy

\* Mutant of WriteTarget: a write follows the policy like a read does.
WriteTargetByPolicy ==
    IF mode = "DIRECT_HIT" \/ Len(WorkerIps) = 0 THEN "manager" ELSE WorkerIps[1]

\* proxy_script.py query(): the node of the write branch's url,
\* public_ips['manager'].
WriteTarget == "manager"

\* proxy_script.py query(): from the start to the write/read split.
PxQuery(r) ==
    /\ pc[r]["proxy"] = "called"
    /\ req[r].op = "query"
    /\ LET data == inp[r]["proxy"] IN
       IF NotQuery(data) THEN
            /\ Finish(r, "proxy", Resp(400, ErrNoQuery))
            /\ UNCHANGED <<loc, seen>>
       ELSE IF ProxyIsWriteQuery(data.val) THEN
            /\ pc' = [pc EXCEPT ![r]["proxy"] = "forward"]
            /\ loc' = [loc EXCEPT ![r] = [branch |-> "WRITE", target |-> WriteTarget,
                                          ping |-> <<>>]]
            /\ UNCHANGED <<ret, seen>>
       ELSE
            /\ pc' = [pc EXCEPT ![r]["proxy"] = "if_direct_hit"]
            /\ seen' = [seen EXCEPT ![r] = {mode}]
            /\ UNCHANGED <<ret, loc>>
    /\ UNCHANGED <<changes, mode, db, conns, req, inp, idx, trace, schema, cq, cls, reg, rsel, net>>

\* Mutant of DirectHitTarget: the branch takes the first worker.
DirectHitTargetFirstWorker == WorkerIps[1]

\* proxy_script.py query(): the node of the DIRECT_HIT branch's url,
\* public_ips['manager'].
DirectHitTarget == "manager"

\* proxy_script.py query(): `if mode == "DIRECT_HIT":`
PxIfDirectHit(r) ==
    /\ pc[r]["proxy"] = "if_direct_hit"
    /\ IF mode = "DIRECT_HIT" THEN
            /\ pc' = [pc EXCEPT ![r]["proxy"] = "forward"]
            /\ loc' = [loc EXCEPT ![r] = [branch |-> "DIRECT_HIT", target |-> DirectHitTarget,
                                          ping |-> <<>>]]
       ELSE
            /\ pc' = [pc EXCEPT ![r]["proxy"] = "elif_random"]
            /\ UNCHANGED loc
    /\ UNCHANGED <<seen, changes, mode, db, conns, req, inp, ret, idx, trace, schema, cq, cls, reg, rsel, net>>

\* proxy_script.py query(): `elif mode == "RANDOM":` and random.choice.
PxElifRandom(r) ==
    /\ pc[r]["proxy"] = "elif_random"
    /\ IF mode = "RANDOM" THEN
            \E c \in RandomChoice(WorkerIps) :
                IF c.raised THEN
                    \* the except block answers 500
                    /\ Finish(r, "proxy", Resp(500, ErrExc("IndexError")))
                    /\ UNCHANGED loc
                ELSE
                    /\ pc' = [pc EXCEPT ![r]["proxy"] = "forward"]
                    /\ loc' = [loc EXCEPT ![r] = [branch |-> "RANDOM",
                                                  target |-> c.target,
                                                  ping |-> <<>>]]
                    /\ UNCHANGED ret
       ELSE
            /\ pc' = [pc EXCEPT ![r]["proxy"] = "elif_customized"]
            /\ UNCHANGED <<ret, loc>>
    /\ UNCHANGED <<seen, changes, mode, db, conns, req, inp, idx, trace, schema, cq, cls, reg, rsel, net>>

\* proxy_script.py query(): `elif mode == "CUSTOMIZED":`, the probe loop and
\* min(ping, key=ping.get).  When no branch is taken the view returns None,
\* which Flask answers with 500.
PxElifCustomized(r) ==
    /\ pc[r]["proxy"] = "elif_customized"
    /\ IF mode = "CUSTOMIZED" THEN
            \E outcomes \in [1..Len(WorkerIps) -> ProbeOutcomes] :
                LET ping == [i \in 1..Len(WorkerIps) |-> ProbeValue(outcomes[i])] IN
                /\ Log(r, ProbeLog(outcomes, 1))
                /\ IF Len(ping) = 0 THEN
                        \* min() of an empty dict raises ValueError
                        /\ Finish(r, "proxy", Resp(500, ErrExc("ValueError")))
                        /\ UNCHANGED loc
                   ELSE
                        /\ pc' = [pc EXCEPT ![r]["proxy"] = "forward"]
                        /\ loc' = [loc EXCEPT ![r] = [branch |-> "CUSTOMIZED",
                                                      target |-> MinPing(ping),
                                                      ping |-> ping]]
                        /\ UNCHANGED ret
       ELSE
            /\ Finish(r, "proxy", FlaskError)
            /\ UNCHANGED <<loc, trace>>
    /\ UNCHANGED <<seen, changes, mode, db, conns, req, inp, idx, schema, cq, cls, reg, rsel, net>>

\* Mutant of ForwardFailure: the except block returns the error body without
\* a status, which Flask sends as 200.
ForwardFailureStatusOk == Resp(200, ErrExc("ConnectionError"))

\* proxy_script.py query(): the except block's answer when requests.post to
\* the target raises.
ForwardFailure == Resp(500, ErrExc("ConnectionError"))

\* proxy_script.py query(): `response = requests.post(url, json={"query": query})`
\* of the branch taken, and for a worker target the return statement too.
PxForward(r) ==
    /\ pc[r]["proxy"] = "forward"
    /\ LET query == inp[r]["proxy"].val
           target == loc[r].target
           body == [has |-> TRUE, val |-> query]
       IN
        \/ \* requests.post raises: the target is unreachable
           /\ Finish(r, "proxy", ForwardFailure)
           /\ Log(r, <<Ev("proxy", "send", target, query), Ev("proxy", "fail", target, query)>>)
           /\ UNCHANGED <<inp, db, schema, conns>>
        \/ /\ target = "manager"
           /\ CallDown(r, "proxy", "manager", body)
           /\ Log(r, <<Ev("proxy", "send", target, query)>>)
           /\ UNCHANGED <<ret, db, schema, conns>>
        \/ /\ target # "manager"
           /\ \E connOk \in BOOLEAN, execOk \in BOOLEAN :
                LET w == WorkerCall(r, target, body, connOk, execOk) IN
                /\ db' = [db EXCEPT ![target] = w.db]
                /\ schema' = [schema EXCEPT ![target] = @ \o w.ddl]
                /\ Finish(r, "proxy", ProxyEnvelope(loc[r], w.resp))
                /\ Log(r, <<Ev("proxy", "send", target, query)>> \o w.events)
           /\ UNCHANGED <<inp, conns>>
    /\ UNCHANGED <<seen, changes, mode, req, loc, idx, cq, cls, reg, rsel, net>>

\* proxy_script.py get_mode()
PxGetMode(r) ==
    /\ pc[r]["proxy"] = "called"
    /\ req[r].op = "get_mode"
    /\ Finish(r, "proxy", Resp(200, [mode |-> mode]))
    /\ UNCHANGED <<seen, changes, mode, db, conns, req, inp, loc, idx, trace, schema, cq, cls, reg, rsel, net>>

\* Positions of the proxy's query handler between its first and its last
\* reading of `mode`.
DecisionPcs == {"if_direct_hit", "elif_random", "elif_customized"}

\* The modes each running routing decision has been concurrent with, once
\* `mode = new_mode` has run.
Observed(new_mode) ==
    [r \in Req |-> IF pc[r]["proxy"] \in DecisionPcs
                   THEN seen[r] \cup {new_mode} ELSE seen[r]]

\* Mutant of InvalidMode: only a missing mode is rejected.
InvalidModeNoneOnly(new_mode) == new_mode = "None"

\* The check of set_mode(): new_mode not in ["DIRECT_HIT", "RANDOM", "CUSTOMIZED"]
InvalidMode(new_mode) == new_mode \notin {"DIRECT_HIT", "RANDOM", "CUSTOMIZED"}

\* proxy_script.py set_mode(): the validation and `mode = new_mode`.
PxSetMode(r) ==
    /\ pc[r]["proxy"] = "called"
    /\ req[r].op = "set_mode"
    /\ LET new_mode == ModeGet(inp[r]["proxy"]) IN
       IF InvalidMode(new_mode) THEN
            /\ Finish(r, "proxy", Resp(400, ErrInvalidMode))
            /\ UNCHANGED <<mode, seen>>
       ELSE
            /\ mode' = new_mode
            /\ seen' = Observed(new_mode)
            /\ pc' = [pc EXCEPT ![r]["proxy"] = "set_mode_return"]
            /\ UNCHANGED ret
    /\ UNCHANGED <<changes, db, conns, req, inp, loc, idx, trace, schema, cq, cls, reg, rsel, net>>

\* Positions of the proxy's handlers from which `mode` may still be read.
ReadsModeLater == {"called", "if_direct_hit", "elif_random", "elif_customized",
                   "set_mode_return"}

\* proxy_script.py set_mode() called with a valid mode by a caller whose
\* response is not followed: its effect on the proxy is `mode = new_mode`.
\* Such a change is taken while a followed proxy handler may still read
\* `mode`: one made at another time is seen, if at all, exactly as one made
\* right after the next such handler has started.
PolicyChange ==
    /\ changes < MaxPolicyChanges
    /\ \E r \in Req : pc[r]["proxy"] \in ReadsModeLater
    /\ \E new_mode \in Modes :
         /\ ~InvalidMode(new_mode)
         /\ mode' = new_mode
         /\ seen' = Observed(new_mode)
    /\ changes' = changes + 1
    /\ UNCHANGED <<db, conns, req, pc, inp, ret, loc, idx, trace, schema, cq, cls, reg, rsel, net>>

\* proxy_script.py set_mode(): `return jsonify({"mode": mode}), 200`, which
\* reads the global again.
PxSetModeReturn(r) ==
    /\ pc[r]["proxy"] = "set_mode_return"
    /\ Finish(r, "proxy", Resp(200, [mode |-> mode]))
    /\ UNCHANGED <<seen, changes, mode, db, conns, req, inp, loc, idx, trace, schema, cq, cls, reg, rsel, net>>

\* ---------------------------------------------------------------- manager

OpenConn(n) == conns' = [conns EXCEPT ![n] = @ + 1]

\* Mutant of CloseConn: the finally block leaves the connection open.
CloseConnLeaks(n) == conns' = [conns EXCEPT ![n] = @]

CloseConn(n) == conns' = [conns EXCEPT ![n] = @ - 1]

\* Mutant of NextWorker: the loop starts over from the first worker.
NextWorkerAgain(i) ==
    LET S == {j \in 1..Len(PublicIps) : ~ManagerSkips(PublicIps[j])} IN
    IF S = {} \/ i > Len(PublicIps) + 1 THEN 0 ELSE CHOOSE j \in S : \A k \in S : j <= k

\* Mutant of NextWorker: the loop takes the registry from its end.
NextWorkerFromLast(i) ==
    LET S == {j \in i..Len(PublicIps) : ~ManagerSkips(PublicIps[j])} IN
    IF S = {} THEN 0 ELSE CHOOSE j \in S : \A k \in S : j >= k

\* Mutant of NextWorker: the loop ends after its first worker.
NextWorkerFirstOnly(i) ==
    LET S == {j \in i..Len(PublicIps) : ~ManagerSkips(PublicIps[j])} IN
    IF S = {} \/ i > 1 THEN 0 ELSE CHOOSE j \in S : \A k \in S : j <= k

\* The position in public_ips of the next worker at or after position i, or 0:
\* the replication loop skips every name that does not start with "worker".
NextWorker(i) ==
    LET S == {j \in i..Len(PublicIps) : ~ManagerSkips(PublicIps[j])} IN
    IF S = {} THEN 0 ELSE CHOOSE j \in S : \A k \in S : j <= k

\* Mutant of ReplicationRaises: the manager raises on an error status too
\* (as response.raise_for_status() would).
ReplicationRaisesForStatus(response) ==
    ~IsJson(response.body) \/ response.status # 200

\* What the manager does with the response of one replication call:
\* response.json() is logged, the status code is not looked at; a body that
\* is not JSON makes response.json() raise.
ReplicationRaises(response) == ~IsJson(response.body)

\* Mutant of ManagerDispatches: the server handles one request at a time.
ManagerDispatchesSerially(r) ==
    \A q \in Req \ {r} : pc[q]["manager"] \notin {"replicate", "blocked"}

\* Whether the manager's server lets the handler of request r run now:
\* app.run() serves every request on a thread of its own and query() takes
\* no lock, so a request never waits for another one.
ManagerDispatches(r) == TRUE

\* manager_script.py query(): from the start to the end of the local
\* execution (for a write: execute and commit), and to the return for a read.
MgQuery(r) ==
    /\ pc[r]["manager"] = "called"
    /\ ManagerDispatches(r)
    /\ LET data == inp[r]["manager"] IN
       IF NotQuery(data) THEN
            \* `return ..., 400` runs the finally block, where `conn` is
            \* unbound: UnboundLocalError leaves the view.
            /\ Finish(r, "manager", FlaskError)
            /\ UNCHANGED <<db, schema, conns, idx, trace>>
       ELSE
            \/ \* mysql.connector.connect raises; the finally block raises again
               /\ Finish(r, "manager", FlaskError)
               /\ Log(r, <<Ev("manager", "connfail", "manager", data.val)>>)
               /\ UNCHANGED <<db, schema, conns, idx>>
            \/ \* cursor.execute raises: except, then finally closes
               /\ Finish(r, "manager", Resp(500, ErrExc("ExecutionError")))
               /\ Log(r, <<Ev("manager", "open", "manager", data.val),
                           Ev("manager", "execfail", "manager", data.val),
                           Ev("manager", "close", "manager", data.val)>>)
               /\ UNCHANGED <<db, schema, conns, idx>>
            \/ /\ ManagerIsWriteQuery(data.val)
               /\ db' = [db EXCEPT !["manager"] = Append(@, data.val)]
               /\ OpenConn("manager")
               /\ pc' = [pc EXCEPT ![r]["manager"] = "replicate"]
               /\ idx' = [idx EXCEPT ![r] = 1]
               /\ Log(r, <<Ev("manager", "open", "manager", data.val),
                           Ev("manager", "commit", "manager", data.val)>>)
               /\ UNCHANGED <<ret, schema>>
            \/ /\ ~ManagerIsWriteQuery(data.val)
               /\ ~ImplicitCommit(data.val)
               /\ Finish(r, "manager", Resp(200, [rows |-> db["manager"]]))
               /\ Log(r, <<Ev("manager", "open", "manager", data.val),
                           Ev("manager", "read", "manager", data.val),
                           Ev("manager", "close", "manager", data.val)>>)
               /\ UNCHANGED <<db, schema, conns, idx>>
            \/ \* the read branch executes a statement that takes effect by
               \* itself; cursor.fetchall() then raises: except, finally
               /\ ~ManagerIsWriteQuery(data.val)
               /\ ImplicitCommit(data.val)
               /\ schema' = [schema EXCEPT !["manager"] = Append(@, data.val)]
               /\ Finish(r, "manager", Resp(500, ErrExc("InterfaceError")))
               /\ Log(r, <<Ev("manager", "open", "manager", data.val),
                           Ev("manager", "autocommit", "manager", data.val),
                           Ev("manager", "close", "manager", data.val)>>)
               /\ UNCHANGED <<db, conns, idx>>
    /\ UNCHANGED <<seen, changes, mode, req, inp, loc, cq, cls, reg, rsel, net>>

\* Mutant of AfterReplicationError: the except block undoes the local write.
AfterReplicationErrorRollback(rows) == SubSeq(rows, 1, Len(rows) - 1)

\* The manager's engine after a replication call raised: the except block
\* logs and answers 500, the finally block closes the cursor and the
\* connection; conn.commit() has run before the loop and nothing undoes it.
AfterReplicationError(rows) == rows

\* manager_script.py query(): one iteration of the replication loop that
\* reaches requests.post.  No timeout is given to requests.post.
MgReplicate(r) ==
    /\ pc[r]["manager"] = "replicate"
    /\ NextWorker(idx[r]) # 0
    /\ LET i == NextWorker(idx[r])
           name == PublicIps[i]
           query == inp[r]["manager"].val
           body == [has |-> TRUE, val |-> query]
       IN
        \/ \* requests.post raises: except returns 500, finally closes
           /\ Finish(r, "manager", Resp(500, ErrExc("ConnectionError")))
           /\ CloseConn("manager")
           /\ Log(r, <<Ev("manager", "send", name, query), Ev("manager", "fail", name, query),
                       Ev("manager", "close", "manager", query)>>)
           /\ db' = [db EXCEPT !["manager"] = AfterReplicationError(@)]
           /\ UNCHANGED <<idx, schema>>
        \/ \* the worker never answers
           /\ pc' = [pc EXCEPT ![r]["manager"] = "blocked"]
           /\ Log(r, <<Ev("manager", "send", name, query), Ev("manager", "hang", name, query)>>)
           /\ UNCHANGED <<db, schema, conns, idx, ret>>
        \/ \E connOk \in BOOLEAN, execOk \in BOOLEAN :
             LET w == WorkerCall(r, name, body, connOk, execOk) IN
             /\ db' = [db EXCEPT ![name] = w.db,
                               !["manager"] = IF ReplicationRaises(w.resp)
                                              THEN AfterReplicationError(@) ELSE @]
             /\ schema' = [schema EXCEPT ![name] = @ \o w.ddl]
             /\ IF ReplicationRaises(w.resp) THEN
                    /\ Finish(r, "manager", Resp(500, ErrExc("JSONDecodeError")))
                    /\ CloseConn("manager")
                    /\ Log(r, <<Ev("manager", "send", name, query)>> \o w.events
                               \o <<Ev("manager", "close", "manager", query)>>)
                    /\ UNCHANGED idx
                ELSE
                    /\ idx' = [idx EXCEPT ![r] = i + 1]
                    /\ Log(r, <<Ev("manager", "send", name, query)>> \o w.events)
                    /\ UNCHANGED <<pc, ret, conns>>
    /\ UNCHANGED <<seen, changes, mode, req, inp, loc, cq, cls, reg, rsel, net>>

\* manager_script.py query(): the loop is over; the write's return statement.
MgReturn(r) ==
    /\ pc[r]["manager"] = "replicate"
    /\ NextWorker(idx[r]) = 0
    /\ Finish(r, "manager",
              Resp(200, [message |->
                  "Write query executed successfully by manager (replicated on workers)"]))
    /\ CloseConn("manager")
    /\ Log(r, <<Ev("manager", "close", "manager", inp[r]["manager"].val)>>)
    /\ UNCHANGED <<seen, changes, mode, db, req, inp, loc, idx, schema, cq, cls, reg, rsel, net>>

\* ----------------------------------------------------------------- worker

\* worker_script.py query(), for a request a client addressed to the worker.
WkQuery(r) ==
    /\ pc[r]["worker"] = "called"
    /\ \E connOk \in BOOLEAN, execOk \in BOOLEAN :
         LET self == req[r].entry
             w == WorkerQuery(self, inp[r]["worker"], db[self], connOk, execOk)
         IN
         /\ db' = [db EXCEPT ![self] = w.db]
         /\ schema' = [schema EXCEPT ![self] = @ \o w.ddl]
         /\ Finish(r, "worker", w.resp)
         /\ Log(r, w.events)
    /\ UNCHANGED <<seen, changes, mode, conns, req, inp, loc, idx, cq, cls, reg, rsel, net>>

\* ------------------------------------------------------------ specification

Next ==
    \/ PolicyChange
    \/ \E r \in Req :
        \/ Start(r)
        \/ ThQuery(r)
        \/ ThMode(r)
        \/ PxQuery(r)
        \/ PxIfDirectHit(r)
        \/ PxElifRandom(r)
        \/ PxElifCustomized(r)
        \/ PxForward(r)
        \/ PxGetMode(r)
        \/ PxSetMode(r)
        \/ PxSetModeReturn(r)
        \/ MgQuery(r)
        \/ MgReplicate(r)
        \/ MgReturn(r)
        \/ WkQuery(r)

Spec == Init /\ [][Next]_vars

\* The same system with its scheduling: the server runs each request's
\* thread, so a handler that can take its next step takes it.  Whether a
\* called node answers is not the server's to decide: a replication call that
\* is never answered leaves the manager's handler with no step to take.
FairSpec ==
    /\ Spec
    /\ \A r \in Req :
          /\ WF_vars(ThQuery(r)) /\ WF_vars(ThMode(r))
          /\ WF_vars(PxQuery(r)) /\ WF_vars(PxIfDirectHit(r))
          /\ WF_vars(PxElifRandom(r)) /\ WF_vars(PxElifCustomized(r))
          /\ WF_vars(PxForward(r)) /\ WF_vars(PxGetMode(r))
          /\ WF_vars(PxSetMode(r)) /\ WF_vars(PxSetModeReturn(r))
          /\ WF_vars(MgQuery(r)) /\ WF_vars(MgReplicate(r))
          /\ WF_vars(MgReturn(r)) /\ WF_vars(WkQuery(r))

\* ------------------------------------------------ one request in the chain

\* The request followed from its arrival to its response.
Followed == {r \in Req : r = 1}

\* One request travels the chain while other clients change the policy.
NextChain ==
    \/ PolicyChange
    \/ \E r \in Followed :
        \/ Start(r)
        \/ ThQuery(r)
        \/ ThMode(r)
        \/ PxQuery(r)
        \/ PxIfDirectHit(r)
        \/ PxElifRandom(r)
        \/ PxElifCustomized(r)
        \/ PxForward(r)
        \/ PxGetMode(r)
        \/ PxSetMode(r)
        \/ PxSetModeReturn(r)
        \/ MgQuery(r)
        \/ MgReplicate(r)
        \/ MgReturn(r)
        \/ WkQuery(r)

SpecChain == Init /\ [][NextChain]_vars

\* The chain with its scheduling: every handler the request is in takes its
\* next step when it has one.
FairChain ==
    /\ SpecChain
    /\ \A r \in Followed :
          /\ WF_vars(ThQuery(r)) /\ WF_vars(ThMode(r))
          /\ WF_vars(PxQuery(r)) /\ WF_vars(PxIfDirectHit(r))
          /\ WF_vars(PxElifRandom(r)) /\ WF_vars(PxElifCustomized(r))
          /\ WF_vars(PxForward(r)) /\ WF_vars(PxGetMode(r))
          /\ WF_vars(PxSetMode(r)) /\ WF_vars(PxSetModeReturn(r))
          /\ WF_vars(MgQuery(r)) /\ WF_vars(MgReplicate(r))
          /\ WF_vars(MgReturn(r)) /\ WF_vars(WkQuery(r))

\* ------------------------------------------- classification of one string

\* Leading text of the corpus strings: none, a space, a tab and a newline.
Pads == { <<>>, <<" ">>, <<"\t", "\n">> }

\* First words of the corpus strings: the three keywords in several cases,
\* and words that are not one of them.
Words ==
    { <<"i","n","s","e","r","t">>, <<"I","N","S","E","R","T">>,
      <<"I","n","s","e","r","T">>,
      <<"u","p","d","a","t","e">>, <<"U","P","D","A","T","E">>,
      <<"u","P","d","A","t","E">>,
      <<"d","e","l","e","t","e">>, <<"D","E","L","E","T","E">>,
      <<"D","e","l","e","t","e">>,
      <<"s","e","l","e","c","t">>, <<"S","E","L","E","C","T">>,
      <<"i","n","s","e","r">>, <<"U","P","D","A","T">>,
      <<"d","r","o","p">>, <<"(","d","e","l","e","t","e">>,
      <<"i","n","s","e","r","t","e","d">>, <<"x","u","p","d","a","t","e">>,
      <<"D","E","L"," ","E","T","E">>, <<>> }

\* Rest of the corpus strings.
Tails == { <<>>, <<" ">>, <<" ","1">>, <<";","\n">> }

\* The strings classified: every pad, word and tail, the empty string left
\* out (the handlers answer 400 to it before classifying).
Corpus == { p \o w \o t : p \in Pads, w \in Words, t \in Tails } \ { <<>> }

ClassNodes == {"proxy", "manager", "worker"}

Classification(isWrite) == IF isWrite THEN "WRITE" ELSE "READ"

InitClassify ==
    /\ mode = "DIRECT_HIT"
    /\ changes = 0
    /\ seen = [r \in Req |-> {}]
    /\ db = [n \in DataNodes |-> <<>>]
    /\ schema = [n \in DataNodes |-> <<>>]
    /\ conns = [n \in DataNodes |-> 0]
    /\ req = [r \in Req |-> NoReq]
    /\ pc = [r \in Req |-> [l \in Layers |-> "idle"]]
    /\ inp = [r \in Req |-> [l \in Layers |-> NoBody]]
    /\ ret = [r \in Req |-> [l \in Layers |-> NoResp]]
    /\ loc = [r \in Req |-> NoLoc]
    /\ idx = [r \in Req |-> 0]
    /\ trace = [r \in Req |-> <<>>]
    /\ cq \in Corpus
    /\ cls = [n \in ClassNodes |-> "none"]
    /\ reg = PublicIps
    /\ rsel = NoSel
    /\ net = NoNet

\* proxy_script.py query(): is_write_query for the string cq
ClassifyAtProxy ==
    /\ cls["proxy"] = "none"
    /\ ~NotQuery([has |-> TRUE, val |-> cq])
    /\ cls' = [cls EXCEPT !["proxy"] = Classification(ProxyIsWriteQuery(cq))]
    /\ UNCHANGED <<seen, mode, changes, db, conns, req, pc, inp, ret, loc, idx, trace, schema, cq, reg, rsel, net>>

\* manager_script.py query(): is_write_query for the string cq
ClassifyAtManager ==
    /\ cls["manager"] = "none"
    /\ ~NotQuery([has |-> TRUE, val |-> cq])
    /\ cls' = [cls EXCEPT !["manager"] = Classification(ManagerIsWriteQuery(cq))]
    /\ UNCHANGED <<seen, mode, changes, db, conns, req, pc, inp, ret, loc, idx, trace, schema, cq, reg, rsel, net>>

\* worker_script.py query(): is_write_query for the string cq
ClassifyAtWorker ==
    /\ cls["worker"] = "none"
    /\ ~NotQuery([has |-> TRUE, val |-> cq])
    /\ cls' = [cls EXCEPT !["worker"] = Classification(WorkerIsWriteQuery(cq))]
    /\ UNCHANGED <<seen, mode, changes, db, conns, req, pc, inp, ret, loc, idx, trace, schema, cq, reg, rsel, net>>

NextClassify == ClassifyAtProxy \/ ClassifyAtManager \/ ClassifyAtWorker

SpecClassify == InitClassify /\ [][NextClassify]_vars

\* ------------------------------------------- RANDOM read under a registry

\* The registries public_ips.json may hold: the names iac.py gives, any of
\* them left out.
Registries ==
    { SelectSeq(PublicIps, LAMBDA n : n \in S) :
        S \in SUBSET {PublicIps[i] : i \in DOMAIN PublicIps} }

InitRegistry ==
    /\ mode = "DIRECT_HIT"
    /\ changes = 0
    /\ seen = [r \in Req |-> {}]
    /\ db = [n \in DataNodes |-> <<>>]
    /\ schema = [n \in DataNodes |-> <<>>]
    /\ conns = [n \in DataNodes |-> 0]
    /\ req = [r \in Req |-> NoReq]
    /\ pc = [r \in Req |-> [l \in Layers |-> "idle"]]
    /\ inp = [r \in Req |-> [l \in Layers |-> NoBody]]
    /\ ret = [r \in Req |-> [l \in Layers |-> NoResp]]
    /\ loc = [r \in Req |-> NoLoc]
    /\ idx = [r \in Req |-> 0]
    /\ trace = [r \in Req |-> <<>>]
    /\ cq = <<>>
    /\ cls = [n \in ClassNodes |-> "none"]
    /\ reg \in Registries
    /\ rsel = NoSel
    /\ net = NoNet

\* proxy_script.py set_mode() called with "RANDOM".
RegSetMode ==
    /\ rsel.pc = "idle"
    /\ mode # "RANDOM"
    /\ ~InvalidMode("RANDOM")
    /\ mode' = "RANDOM"
    /\ UNCHANGED <<changes, seen, db, conns, req, pc, inp, ret, loc, idx, trace, schema, cq, cls, reg, rsel, net>>

\* proxy_script.py query() for a READ while mode is RANDOM: the two tests and
\* random.choice over the workers of the loaded registry.
RegChoose ==
    /\ rsel.pc = "idle"
    /\ mode # "DIRECT_HIT"
    /\ mode = "RANDOM"
    /\ ~NotQuery([has |-> TRUE, val |-> QSelect])
    /\ ~ProxyIsWriteQuery(QSelect)
    /\ \E c \in RandomChoice(WorkerKeys(ProxyFilter(reg))) :
         IF c.raised THEN
            rsel' = [rsel EXCEPT !.pc = "done",
                                 !.resp = Resp(500, ErrExc("IndexError"))]
         ELSE
            rsel' = [rsel EXCEPT !.pc = "forward",
                                 !.loc = [branch |-> "RANDOM", target |-> c.target,
                                          ping |-> <<>>]]
    /\ UNCHANGED <<mode, changes, seen, db, conns, req, pc, inp, ret, loc, idx, trace, schema, cq, cls, reg, net>>

\* proxy_script.py query(): requests.post to the chosen node and the return.
RegForward ==
    /\ rsel.pc = "forward"
    /\ \/ rsel' = [rsel EXCEPT !.pc = "done", !.sent = Append(@, rsel.loc.target),
                                !.resp = Resp(500, ErrExc("ConnectionError"))]
       \/ \E connOk \in BOOLEAN, execOk \in BOOLEAN :
            LET w == WorkerQuery(rsel.loc.target, [has |-> TRUE, val |-> QSelect],
                                 <<>>, connOk, execOk)
            IN rsel' = [rsel EXCEPT !.pc = "done", !.sent = Append(@, rsel.loc.target),
                                    !.resp = ProxyEnvelope(rsel.loc, w.resp)]
    /\ UNCHANGED <<mode, changes, seen, db, conns, req, pc, inp, ret, loc, idx, trace, schema, cq, cls, reg, net>>

NextRegistry == RegSetMode \/ RegChoose \/ RegForward

SpecRegistry == InitRegistry /\ [][NextRegistry]_vars

\* ------------------------------------------------- inbound rules (iac.py)

\* The port every Flask app listens on (app.run(port=5000)) and the rules open.
ServicePort == 5000

\* The SSH port the rules open on every group.
SshPort == 22

\* CidrIp "0.0.0.0/0"
Anywhere == "0.0.0.0/0"

\* A caller outside the cluster.
Internet == "internet"

Nodes == {PublicIps[i] : i \in DOMAIN PublicIps}

Hosts == Nodes \cup {Internet}

\* launch_instances(): SecurityGroupIds of each instance.
SecurityGroup ==
    [worker1 |-> "common_sg", worker2 |-> "common_sg", manager |-> "common_sg",
     proxy |-> "proxy_sg", trusted_host |-> "trusted_host_sg",
     gatekeeper |-> "gatekeeper_sg"]

\* One inbound permission: a port and the address allowed (a node's
\* public address /32, or 0.0.0.0/0).
Permission(port, source) == [port |-> port, source |-> source]

\* Mutant of IpPermissions: the cluster group also admits the gatekeeper on
\* the service port.
IpPermissionsClusterFromGatekeeper ==
    [common_sg |-> {Permission(SshPort, Anywhere), Permission(ServicePort, "manager"),
                    Permission(ServicePort, "proxy"), Permission(ServicePort, "gatekeeper")},
     proxy_sg |-> {Permission(SshPort, Anywhere), Permission(ServicePort, "trusted_host")},
     trusted_host_sg |-> {Permission(SshPort, Anywhere), Permission(ServicePort, "gatekeeper")},
     gatekeeper_sg |-> {Permission(SshPort, Anywhere), Permission(ServicePort, Anywhere)}]

\* Mutant of IpPermissions: the cluster group opens the service port to any
\* address, as it does the SSH port.
IpPermissionsClusterOpen ==
    [common_sg |-> {Permission(SshPort, Anywhere), Permission(ServicePort, Anywhere)},
     proxy_sg |-> {Permission(SshPort, Anywhere), Permission(ServicePort, "trusted_host")},
     trusted_host_sg |-> {Permission(SshPort, Anywhere), Permission(ServicePort, "gatekeeper")},
     gatekeeper_sg |-> {Permission(SshPort, Anywhere), Permission(ServicePort, Anywhere)}]

\* add_inbound_rules(): the IpPermissions authorized on each security group.
IpPermissions ==
    [common_sg |-> {Permission(SshPort, Anywhere), Permission(ServicePort, "manager"),
                    Permission(ServicePort, "proxy")},
     proxy_sg |-> {Permission(SshPort, Anywhere), Permission(ServicePort, "trusted_host")},
     trusted_host_sg |-> {Permission(SshPort, Anywhere), Permission(ServicePort, "gatekeeper")},
     gatekeeper_sg |-> {Permission(SshPort, Anywhere), Permission(ServicePort, Anywhere)}]

\* A connection from src to port `port` of node dst passes the inbound rules
\* of dst's security group (a group admits nothing it has no permission for).
Admits(dst, src, port) ==
    \E p \in IpPermissions[SecurityGroup[dst]] :
        /\ p.port = port
        /\ p.source = Anywhere \/ p.source = src

\* The nodes whose /query a node's handler may call: the trusted host calls
\* the proxy, the proxy the manager or a worker, the manager every worker, a
\* worker none.  The gatekeeper's script is not constrained: any other node.
Downstream(node) ==
    IF node = "trusted_host" THEN {"proxy"}
    ELSE IF node = "proxy" THEN {n \in Nodes : NamePrefix[n] \in {"worker", "manager"}}
    ELSE IF node = "manager" THEN {n \in Nodes : ~ManagerSkips(n)}
    ELSE IF node = "gatekeeper" THEN Nodes \ {"gatekeeper"}
    ELSE {}

\* The host that holds query q: the last node that accepted it, or the
\* external caller.
Holder(q) == IF net[q].path = <<>> THEN Internet ELSE net[q].path[Len(net[q].path)]

\* Host src opens a connection to dst:port for query q.  On the service port
\* an admitted connection hands the query to dst's Flask app; on the SSH port
\* no app receives it; a connection the rules do not admit is dropped.
Connect(q, src, dst, port) ==
    LET ok == Admits(dst, src, port) IN
    net' = [net EXCEPT ![q] =
              [path |-> IF ok /\ port = ServicePort THEN Append(@.path, dst) ELSE @.path,
               last |-> [src |-> src, dst |-> dst, port |-> port, admitted |-> ok]]]

\* An external caller addresses a query to any node, on either port.
NetExternal(q) ==
    /\ Holder(q) = Internet
    /\ \E dst \in Nodes, port \in {ServicePort, SshPort} :
         Connect(q, Internet, dst, port)
    /\ UNCHANGED <<mode, changes, seen, db, conns, req, pc, inp, ret, loc, idx, trace, schema, cq, cls, reg, rsel>>

\* The node that holds query q calls /query of a node downstream of it.
NetRelay(q) ==
    /\ Holder(q) # Internet
    /\ \E dst \in Downstream(Holder(q)) :
         Connect(q, Holder(q), dst, ServicePort)
    /\ UNCHANGED <<mode, changes, seen, db, conns, req, pc, inp, ret, loc, idx, trace, schema, cq, cls, reg, rsel>>

NextNet == \E q \in Req : NetExternal(q) \/ NetRelay(q)

SpecNet == Init /\ [][NextNet]_vars

\* ------------------------------------------------------------------ claims

\* Two characters are the same letter, whatever their case.
SameLetter(c, d) ==
    \/ c = d
    \/ \E k \in 1..Len(UpperLetters) :
          {c, d} = {UpperLetters[k], LowerLetters[k]}

\* The first character of s that is not whitespace is at position i, and the
\* characters from there spell the word kw, case ignored.
SpellsAt(s, i, kw) ==
    /\ i \in 1..Len(s)
    /\ \A j \in 1..(i - 1) : s[j] \in Whitespace
    /\ s[i] \notin Whitespace
    /\ i + Len(kw) - 1 <= Len(s)
    /\ \A j \in 1..Len(kw) : SameLetter(s[i + j - 1], kw[j])

\* The query leads with INSERT, UPDATE or DELETE.
LeadsWithWriteKeyword(s) ==
    \E i \in 1..Len(s) :
        \/ SpellsAt(s, i, <<"I","N","S","E","R","T">>)
        \/ SpellsAt(s, i, <<"U","P","D","A","T","E">>)
        \/ SpellsAt(s, i, <<"D","E","L","E","T","E">>)

\* C4: the classification is WRITE exactly when the query's leading characters
\* (after whitespace, case ignored) spell INSERT, UPDATE or DELETE, and READ
\* for every other non-empty query; the proxy, the manager and the worker
\* compute the same classification for the same string.
C4_Classification ==
    \A n \in ClassNodes :
        cls[n] # "none" =>
            /\ cls[n] = Classification(LeadsWithWriteKeyword(cq))
            /\ \A m \in ClassNodes : cls[m] # "none" => cls[m] = cls[n]

\* C4 witness: all three nodes have classified a mixed-case keyword that
\* follows whitespace, as WRITE.
C4_Witness ==
    /\ cq = <<"\t", "\n", "u","P","d","A","t","E", " ", "1">>
    /\ \A n \in ClassNodes : cls[n] = "WRITE"

\* ---- helpers of the claims about requests

\* The events of request r that satisfy Test.
Events(r, Test(_)) == {i \in DOMAIN trace[r] : Test(trace[r][i])}

\* The /query calls node `by` has issued for request r.
SendsBy(r, by) == Events(r, LAMBDA e : e.by = by /\ e.ev = "send")

\* The probes the proxy has made for request r.
Probes(r) == Events(r, LAMBDA e : e.by = "proxy" /\ e.ev = "probe")

\* The body's query field is missing or is the empty string.
MissingOrEmpty(data) == data.has = FALSE \/ data.val = <<>>

\* Request r has reached the proxy's query handler with a query to route.
ProxyRoutes(r) ==
    /\ req[r].op = "query"
    /\ pc[r]["proxy"] \notin {"idle", "called"}
    /\ ~MissingOrEmpty(inp[r]["proxy"])

ProxyWrite(r) == ProxyRoutes(r) /\ ProxyIsWriteQuery(inp[r]["proxy"].val)

ProxyRead(r) == ProxyRoutes(r) /\ ~ProxyIsWriteQuery(inp[r]["proxy"].val)

\* The position of worker w in the registry's worker order.
WorkerPos(w) == CHOOSE k \in 1..Len(WorkerIps) : WorkerIps[k] = w

\* The elements of a sequence.
Range(f) == {f[i] : i \in DOMAIN f}

\* C1: whatever the policy is and however policy changes interleave, a query
\* the proxy classifies as WRITE is sent by the proxy to the manager and to no
\* other node, at most once and without any probe; when the handler has
\* returned, the manager was called and the response is the envelope with
\* handled_by = "manager", or else the 500 error of a forward that failed.
C1_WriteToManager ==
    \A r \in Req :
        ProxyWrite(r) =>
            /\ \A i \in SendsBy(r, "proxy") : trace[r][i].node = "manager"
            /\ Cardinality(SendsBy(r, "proxy")) <= 1
            /\ Probes(r) = {}
            /\ pc[r]["proxy"] \in {"wait", "done"} =>
                   Cardinality(SendsBy(r, "proxy")) = 1
            /\ pc[r]["proxy"] = "done" =>
                   LET b == ret[r]["proxy"].body IN
                   \/ /\ "handled_by" \in DOMAIN b
                      /\ b.handled_by = "manager"
                      /\ b.result = ret[r]["manager"].body
                   \/ /\ ret[r]["proxy"].status = 500
                      /\ IsErrorBody(b)
                      /\ \/ \E i \in DOMAIN trace[r] :
                               /\ trace[r][i].by = "proxy"
                               /\ trace[r][i].ev = "fail"
                         \/ ~IsJson(ret[r]["manager"].body)

\* C1 witness: a WRITE has been answered with handled_by = "manager" while a
\* policy change made CUSTOMIZED the active policy during its routing.
C1_Witness ==
    \E r \in Req :
        /\ ProxyWrite(r)
        /\ pc[r]["proxy"] = "done"
        /\ ret[r]["proxy"].status = 200
        /\ "handled_by" \in DOMAIN ret[r]["proxy"].body
        /\ ret[r]["proxy"].body.handled_by = "manager"
        /\ changes = 1
        /\ mode = "CUSTOMIZED"

\* C2 (as claimed): a READ that has left the policy tests has made exactly one
\* of the DIRECT_HIT, RANDOM or CUSTOMIZED selections, and the policy whose
\* selection it made was the active policy at an instant of the request.
C2_OneSelectionByOnePolicy ==
    \A r \in Req :
        (ProxyRead(r) /\ pc[r]["proxy"] \notin DecisionPcs) =>
            /\ loc[r].branch \in Modes
            /\ loc[r].branch \in seen[r]

\* C3: no routing decision mixes two policies' selection logic.  A request
\* that has probed took the CUSTOMIZED branch, probed each worker once in
\* registry order and targets a worker of least recorded value, the first such
\* in registry order; a request on the RANDOM branch has made no probe and
\* targets a worker; one on the DIRECT_HIT branch has made no probe and
\* targets the manager; the proxy sends to no node but the branch's target.
C3_NoMixedDecision ==
    \A r \in Req :
        ProxyRead(r) =>
            LET l == loc[r] IN
            /\ Probes(r) # {} => l.branch = "CUSTOMIZED"
            /\ l.branch = "CUSTOMIZED" =>
                   /\ Len(l.ping) = Len(WorkerIps)
                   /\ \A i \in Probes(r), j \in Probes(r) :
                        i < j => WorkerPos(trace[r][i].node) < WorkerPos(trace[r][j].node)
                   /\ \E k \in 1..Len(WorkerIps) :
                        /\ l.target = WorkerIps[k]
                        /\ \A j \in 1..Len(WorkerIps) : l.ping[k] <= l.ping[j]
                        /\ \A j \in 1..(k - 1) : l.ping[j] > l.ping[k]
                   /\ Cardinality(Probes(r)) = Len(WorkerIps)
                   /\ \A w \in Range(WorkerIps) :
                        Cardinality({i \in Probes(r) : trace[r][i].node = w}) = 1
            /\ l.branch = "RANDOM" =>
                   /\ Probes(r) = {}
                   /\ l.ping = <<>>
                   /\ l.target \in Range(WorkerIps)
            /\ l.branch = "DIRECT_HIT" =>
                   /\ Probes(r) = {}
                   /\ l.ping = <<>>
                   /\ l.target = "manager"
            /\ l.branch = "none" => Probes(r) = {} /\ SendsBy(r, "proxy") = {}
            /\ \A i \in SendsBy(r, "proxy") : trace[r][i].node = l.target
            /\ Cardinality(SendsBy(r, "proxy")) <= 1

\* C3 witness: a READ that probed under CUSTOMIZED has been forwarded to the
\* second worker, the faster one, though the policy became RANDOM meanwhile.
C3_Witness ==
    \E r \in Req :
        /\ ProxyRead(r)
        /\ pc[r]["proxy"] = "done"
        /\ loc[r].branch = "CUSTOMIZED"
        /\ loc[r].ping = <<2, 1>>
        /\ loc[r].target = "worker2"
        /\ \E i \in SendsBy(r, "proxy") : trace[r][i].node = "worker2"
        /\ mode = "RANDOM"

\* The manager's response to a write it has executed and replicated.
WriteSuccess ==
    Resp(200, [message |->
        "Write query executed successfully by manager (replicated on workers)"])

\* The manager has committed request r's write in its own engine.
ManagerCommitted(r) ==
    Events(r, LAMBDA e : e.by = "manager" /\ e.ev = "commit") # {}

\* The workers of the registry, in registry order.
WorkersInOrder == SelectSeq(PublicIps, LAMBDA n : n \in WorkerNodes)

\* The rows a SELECT served by worker w returns in the current state.
ReadAt(w) ==
    WorkerQuery(w, [has |-> TRUE, val |-> QSelect], db[w], TRUE, TRUE).resp.body.query_result

\* C5: when the manager has returned its success response for a WRITE and no
\* worker failed during the request, the manager and every registered worker
\* have applied the write, and a READ served by any worker sees it.
C5_WriteOnEveryWorker ==
    \A r \in Req :
        ( /\ pc[r]["manager"] = "done"
          /\ ret[r]["manager"] = WriteSuccess
          /\ Events(r, LAMBDA e : e.by \in WorkerNodes
                                   /\ e.ev \in {"execfail", "connfail"}) = {} )
        =>
        LET q == inp[r]["manager"].val IN
        /\ q \in Range(db["manager"])
        /\ \A w \in WorkerNodes :
              /\ Events(r, LAMBDA e : e.by = w /\ e.ev = "commit" /\ e.info = q) # {}
              /\ q \in Range(db[w])
              /\ q \in Range(ReadAt(w))

\* C5 witness: a WRITE sent through the trusted host has been answered with
\* success, and both workers hold it.
C5_Witness ==
    \E r \in Req :
        /\ req[r].entry = "trusted_host"
        /\ pc[r]["trusted_host"] = "done"
        /\ ret[r]["manager"] = WriteSuccess
        /\ inp[r]["manager"].val = QInsert
        /\ \A w \in WorkerNodes : QInsert \in Range(db[w])

\* C6 (as claimed): once the manager has ended a WRITE it committed locally,
\* every worker of the registry has been sent the write, whatever happened to
\* the replication call of an earlier worker.
C6_ReplicationNotAborted ==
    \A r \in Req :
        (pc[r]["manager"] = "done" /\ ManagerCommitted(r)) =>
            \A w \in WorkerNodes :
                Events(r, LAMBDA e : e.by = "manager" /\ e.ev = "send" /\ e.node = w) # {}

\* C7: when a worker's engine rejects a replicated WRITE (the worker answers
\* 500 with an error body), the manager goes on: its next event is the call of
\* the next worker in registry order or, after the last worker, the end of
\* the request with the success response.
C7_WorkerRejectionTolerated ==
    \A r \in Req : \A i \in DOMAIN trace[r] :
        ( /\ trace[r][i].ev = "execfail"
          /\ trace[r][i].by \in WorkerNodes
          /\ ManagerCommitted(r) )
        =>
        LET k == CHOOSE j \in 1..Len(WorkersInOrder) : WorkersInOrder[j] = trace[r][i].by
            \* trace[r][i + 1] is the worker closing its connection
            n == i + 2
        IN
        /\ pc[r]["manager"] \in {"replicate", "blocked", "done"}
        /\ pc[r]["manager"] \in {"blocked", "done"} => Len(trace[r]) >= n
        /\ Len(trace[r]) >= n =>
              IF k < Len(WorkersInOrder)
              THEN /\ trace[r][n].by = "manager"
                   /\ trace[r][n].ev = "send"
                   /\ trace[r][n].node = WorkersInOrder[k + 1]
              ELSE /\ trace[r][n].by = "manager"
                   /\ trace[r][n].ev = "close"
                   /\ pc[r]["manager"] = "done"
                   /\ ret[r]["manager"] = WriteSuccess

\* C7 witness: the first worker rejected the write, the second applied it and
\* the manager answered with success.
C7_Witness ==
    \E r \in Req :
        /\ pc[r]["manager"] = "done"
        /\ ret[r]["manager"] = WriteSuccess
        /\ Events(r, LAMBDA e : e.by = "worker1" /\ e.ev = "execfail") # {}
        /\ Events(r, LAMBDA e : e.by = "worker2" /\ e.ev = "commit") # {}

\* C8 (as claimed): a set_mode the proxy has answered returned 200 with the
\* mode it was called with when that mode is valid, and 400 "Invalid mode"
\* otherwise.
C8_SetModeReturnsItsMode ==
    \A r \in Req :
        (req[r].op = "set_mode" /\ pc[r]["proxy"] = "done") =>
            LET data == inp[r]["proxy"] IN
            IF data.has /\ data.val \in Modes
            THEN ret[r]["proxy"] = Resp(200, [mode |-> data.val])
            ELSE ret[r]["proxy"] = Resp(400, ErrInvalidMode)

\* The rest of C8, which the code satisfies: a rejected set_mode leaves the
\* policy unchanged, and a get_mode returns the policy that is active.
C8_RejectedLeavesPolicy ==
    [][\A r \in Req :
          /\ (req[r].op = "set_mode" /\ pc[r]["proxy"] = "called"
              /\ pc'[r]["proxy"] = "done") => mode' = mode
          /\ (req[r].op = "get_mode" /\ pc[r]["proxy"] = "called"
              /\ pc'[r]["proxy"] = "done") =>
                 ret'[r]["proxy"] = Resp(200, [mode |-> mode])]_vars

\* C9: at the trusted host and at the proxy, a /query whose query field is
\* missing or empty is answered 400 {"error": "No query provided"}, and the
\* handler calls no node: no query is sent, no worker is probed and no
\* downstream handler is started.
C9_RelayRejectsEmpty ==
    \A r \in Req :
        /\ ( /\ req[r].op = "query"
             /\ pc[r]["trusted_host"] # "idle"
             /\ MissingOrEmpty(inp[r]["trusted_host"]) )
           =>
           /\ pc[r]["trusted_host"] = "done" =>
                 ret[r]["trusted_host"] = Resp(400, [error |-> "No query provided"])
           /\ Events(r, LAMBDA e : e.by = "trusted_host") = {}
           /\ \A l \in {"proxy", "manager", "worker"} : pc[r][l] = "idle"
        /\ ( /\ req[r].op = "query"
             /\ pc[r]["proxy"] # "idle"
             /\ MissingOrEmpty(inp[r]["proxy"]) )
           =>
           /\ pc[r]["proxy"] = "done" =>
                 ret[r]["proxy"] = Resp(400, [error |-> "No query provided"])
           /\ Events(r, LAMBDA e : e.by = "proxy") = {}
           /\ \A l \in {"manager", "worker"} : pc[r][l] = "idle"
        \* a query that is neither missing nor empty is not rejected this way
        /\ \A l \in {"trusted_host", "proxy"} :
              ( /\ req[r].op = "query"
                /\ pc[r][l] = "done"
                /\ ~MissingOrEmpty(inp[r][l]) )
              => ret[r][l] # Resp(400, [error |-> "No query provided"])

\* C9 witness: the trusted host has rejected a body without a query field and
\* the proxy one with an empty query.
C9_Witness ==
    \E r1 \in Req, r2 \in Req :
        /\ req[r1] = [entry |-> "trusted_host", op |-> "query"]
        /\ inp[r1]["trusted_host"].has = FALSE
        /\ ret[r1]["trusted_host"].status = 400
        /\ req[r2] = [entry |-> "proxy", op |-> "query"]
        /\ inp[r2]["proxy"] = [has |-> TRUE, val |-> <<>>]
        /\ ret[r2]["proxy"].status = 400

\* C10 (as claimed): at the manager and at a worker, a /query whose query
\* field is missing or empty is answered 400 {"error": "No query provided"};
\* no connection is opened, nothing is executed and nothing is replicated.
C10_TerminalRejectsEmpty ==
    \A r \in Req : \A l \in {"manager", "worker"} :
        ( /\ pc[r][l] = "done"
          /\ MissingOrEmpty(inp[r][l]) )
        =>
        /\ ret[r][l] = Resp(400, [error |-> "No query provided"])
        /\ trace[r] = <<>>

\* ---- helpers of the claims about probing

\* The proxy's probe of worker w raised (timeout or transport error) in request r.
ProbeFailed(r, w) ==
    Events(r, LAMBDA e : e.by = "proxy" /\ e.ev = "probefail" /\ e.node = w) # {}

\* The value the probe loop recorded for worker w in request r.
Recorded(r, w) == loc[r].ping[WorkerPos(w)]

\* Request r is a READ that took the CUSTOMIZED branch and has probed.
CustomizedRead(r) == ProxyRead(r) /\ loc[r].branch = "CUSTOMIZED"

\* The workers whose probe answered in request r.
Reachable(r) == {w \in Range(WorkerIps) : ~ProbeFailed(r, w)}

\* C11: under CUSTOMIZED the READ is forwarded to the worker of least recorded
\* probe value, and to no other node; a worker whose probe failed has a
\* recorded value above that of every worker whose probe answered; among
\* workers of equal value the first in registry order is taken; when exactly
\* one worker is reachable it is the target.
C11_MinProbeSelected ==
    \A r \in Req :
        CustomizedRead(r) =>
            LET t == loc[r].target IN
            /\ t \in Range(WorkerIps)
            /\ \A w \in Range(WorkerIps) :
                  /\ Recorded(r, t) <= Recorded(r, w)
                  /\ Recorded(r, w) = Recorded(r, t) => WorkerPos(t) <= WorkerPos(w)
                  /\ ProbeFailed(r, w) =>
                        \A v \in Reachable(r) : Recorded(r, v) < Recorded(r, w)
            /\ Reachable(r) # {} => t \in Reachable(r)
            /\ Cardinality(Reachable(r)) = 1 => Reachable(r) = {t}
            /\ \A i \in SendsBy(r, "proxy") : trace[r][i].node = t
            /\ pc[r]["proxy"] \in {"wait", "done"} =>
                  Cardinality(SendsBy(r, "proxy")) = 1

\* C11 witness: both workers answered their probe with the same latency and
\* the READ was served by the first one.
C11_Witness ==
    \E r \in Req :
        /\ CustomizedRead(r)
        /\ pc[r]["proxy"] = "done"
        /\ Reachable(r) = Range(WorkerIps)
        /\ Recorded(r, "worker1") = Recorded(r, "worker2")
        /\ ret[r]["proxy"].status = 200
        /\ ret[r]["proxy"].body.handled_by = "worker1"

\* C12: a probe that times out or fails is recorded as a value above every
\* finite latency, the same for every failed probe, and the decision goes on:
\* every worker after the failed one is still probed, and the request is
\* forwarded once, to a worker that answered its probe with the least latency
\* when there is one.
C12_ProbeFailureIsSentinel ==
    \A r \in Req : \A i \in DOMAIN trace[r] :
        (trace[r][i].by = "proxy" /\ trace[r][i].ev = "probefail") =>
            LET w == trace[r][i].node IN
            /\ ProxyRead(r)
            /\ loc[r].branch = "CUSTOMIZED"
            /\ \A lat \in 1..MaxLatency : Recorded(r, w) > lat
            /\ \A v \in Range(WorkerIps) :
                  /\ ProbeFailed(r, v) => Recorded(r, v) = Recorded(r, w)
                  /\ WorkerPos(v) > WorkerPos(w) =>
                        \E j \in Probes(r) : j > i /\ trace[r][j].node = v
            /\ pc[r]["proxy"] \in {"forward", "wait", "done"}
            /\ Reachable(r) # {} =>
                  /\ loc[r].target \in Reachable(r)
                  /\ \A v \in Reachable(r) : Recorded(r, loc[r].target) <= Recorded(r, v)
            /\ pc[r]["proxy"] = "done" =>
                  \E j \in SendsBy(r, "proxy") :
                      j > i /\ trace[r][j].node = loc[r].target

\* C12 witness: the probe of the first worker failed, the second worker was
\* probed after it and served the READ; the envelope shows both values.
C12_Witness ==
    \E r \in Req :
        /\ ProbeFailed(r, "worker1")
        /\ ~ProbeFailed(r, "worker2")
        /\ pc[r]["proxy"] = "done"
        /\ ret[r]["proxy"].status = 200
        /\ ret[r]["proxy"].body.handled_by = "worker2"
        /\ ret[r]["proxy"].body.pings = <<MaxLatency + 1, MaxLatency>>

\* The names of a registry that denote workers.
WorkersOf(registry) ==
    {registry[i] : i \in {j \in DOMAIN registry : NamePrefix[registry[j]] = "worker"}}

\* C13: under RANDOM a READ is sent to one node, a worker of the registry, and
\* never to the manager; when the registry holds no worker the request ends
\* with a 5xx error body and nothing has been sent to any node.
C13_RandomOnlyWorkers ==
    /\ \A i \in DOMAIN rsel.sent :
          /\ rsel.sent[i] \in WorkersOf(reg)
          /\ rsel.sent[i] # "manager"
    /\ Len(rsel.sent) <= 1
    /\ rsel.pc = "forward" => rsel.loc.target \in WorkersOf(reg)
    /\ rsel.pc = "done" =>
          IF WorkersOf(reg) = {}
          THEN /\ rsel.sent = <<>>
               /\ rsel.resp.status \in 500..599
               /\ IsErrorBody(rsel.resp.body)
          ELSE /\ Len(rsel.sent) = 1
               /\ rsel.sent[1] = rsel.loc.target
               /\ IsErrorBody(rsel.resp.body) \/ rsel.resp.body.handled_by = rsel.sent[1]

\* C13 witness: the registry holds the manager and no worker, and the READ has
\* ended with an error while nothing was sent.
C13_Witness ==
    /\ reg = <<"manager", "proxy", "trusted_host", "gatekeeper">>
    /\ mode = "RANDOM"
    /\ rsel.pc = "done"
    /\ rsel.resp.status = 500
    /\ rsel.sent = <<>>

\* DIRECT_HIT was the active policy during the whole routing decision of the
\* READ r, which has left the policy tests.
DirectHitRead(r) ==
    /\ ProxyRead(r)
    /\ pc[r]["proxy"] \notin DecisionPcs
    /\ seen[r] = {"DIRECT_HIT"}

\* C14: a READ routed while DIRECT_HIT is the active policy is sent by the
\* proxy to the manager and to no other node; no worker is probed, queried or
\* touched during the request; once the manager has answered with JSON the
\* response is the envelope with handled_by = "manager" (a forward that
\* failed gives the 500 error body instead).
C14_DirectHitToManager ==
    \A r \in Req :
        DirectHitRead(r) =>
            /\ loc[r].branch = "DIRECT_HIT"
            /\ loc[r].target = "manager"
            /\ Probes(r) = {}
            /\ Events(r, LAMBDA e : e.node \in WorkerNodes \/ e.by \in WorkerNodes) = {}
            /\ \A i \in SendsBy(r, "proxy") : trace[r][i].node = "manager"
            /\ pc[r]["proxy"] \in {"wait", "done"} =>
                  Cardinality(SendsBy(r, "proxy")) = 1
            /\ pc[r]["proxy"] = "done" =>
                  LET b == ret[r]["proxy"].body IN
                  IF pc[r]["manager"] = "done" /\ IsJson(ret[r]["manager"].body)
                  THEN /\ b.handled_by = "manager"
                       /\ b.result = ret[r]["manager"].body
                       /\ ret[r]["proxy"].status = ret[r]["manager"].status
                  ELSE /\ ret[r]["proxy"].status = 500
                       /\ IsErrorBody(b)

\* C14 witness: a READ sent through the trusted host under DIRECT_HIT has been
\* answered by the manager with its rows, after an earlier request's write.
C14_Witness ==
    \E r \in Req :
        /\ DirectHitRead(r)
        /\ req[r].entry = "trusted_host"
        /\ pc[r]["trusted_host"] = "done"
        /\ ret[r]["proxy"].status = 200
        /\ ret[r]["proxy"].body.handled_by = "manager"
        /\ ret[r]["proxy"].body.result = [rows |-> <<QInsert>>]

\* The three policies.
Policies == {"DIRECT_HIT", "RANDOM", "CUSTOMIZED"}

\* Request r is a set_mode at the proxy, called with the valid policy m, and
\* the step taken is its assignment.
SetsPolicy(r, m) ==
    /\ req[r].op = "set_mode"
    /\ pc[r]["proxy"] = "called"
    /\ pc'[r]["proxy"] = "set_mode_return"
    /\ inp[r]["proxy"] = [has |-> TRUE, val |-> m]
    /\ m \in Policies

\* C15: the policy is DIRECT_HIT at startup, is one of the three policies in
\* every state, and a step changes it only when the step is the assignment of
\* a set_mode called with a valid policy, which becomes the new value (by a
\* followed request or by another caller); every other step (of a query, of a
\* get_mode, of a rejected set_mode, of any other node) leaves it unchanged.
C15_PolicyInvariants ==
    /\ mode = "DIRECT_HIT"
    /\ [](mode \in Policies)
    /\ [][ mode' # mode =>
              \/ \E r \in Req : SetsPolicy(r, mode')
              \/ /\ changes' = changes + 1
                 /\ mode' \in Policies
                 /\ pc' = pc ]_vars
    /\ [][ \A r \in Req :
              (pc'[r] # pc[r] /\ ~(\E m \in Policies : SetsPolicy(r, m)))
                  => mode' = mode ]_vars

\* C15 witness: a set_mode with a valid policy has changed the policy, and a
\* later set_mode with an invalid value was rejected and left it in place.
C15_Witness ==
    \E r1 \in Req, r2 \in Req :
        /\ req[r1].op = "set_mode" /\ inp[r1]["proxy"].val = "RANDOM"
        /\ ret[r1]["proxy"].status = 200
        /\ req[r2].op = "set_mode" /\ inp[r2]["proxy"].val = "bogus"
        /\ ret[r2]["proxy"].status = 400
        /\ mode = "RANDOM"

\* The chain of the claim: who may reach whom on the service port.
ChainAllows(dst, src) ==
    \/ dst = "gatekeeper"
    \/ dst = "trusted_host" /\ src = "gatekeeper"
    \/ dst = "proxy" /\ src = "trusted_host"
    \/ dst \in {"manager", "worker1", "worker2"} /\ src \in {"proxy", "manager"}

\* C16: on the service port the rules admit exactly the chain (anyone to the
\* gatekeeper, the gatekeeper to the trusted host, the trusted host to the
\* proxy, the proxy and the manager to the manager and the workers); every
\* connection attempted was admitted or dropped accordingly; and a query that
\* has reached the manager or a worker went through the gatekeeper, then the
\* trusted host, then the proxy.
C16_InboundChain ==
    /\ \A dst \in {"gatekeeper", "trusted_host", "proxy", "manager", "worker1", "worker2"} :
          \A src \in {"internet", "gatekeeper", "trusted_host", "proxy", "manager",
                      "worker1", "worker2"} :
              Admits(dst, src, 5000) <=> ChainAllows(dst, src)
    /\ \A q \in Req :
          LET path == net[q].path
              last == net[q].last
          IN
          /\ (last.port = 5000) => (last.admitted <=> ChainAllows(last.dst, last.src))
          /\ (last.port = 5000 /\ last.admitted) => path[Len(path)] = last.dst
          /\ \A i \in DOMAIN path :
                path[i] \in {"manager", "worker1", "worker2"} =>
                    /\ i > 3
                    /\ SubSeq(path, 1, 3) = <<"gatekeeper", "trusted_host", "proxy">>

\* C16 witness: one query has reached a worker through the whole chain and
\* the manager's replication, while an external caller's connection to the
\* manager's service port has been dropped.
C16_Witness ==
    \E q1 \in Req, q2 \in Req :
        /\ net[q1].path = <<"gatekeeper", "trusted_host", "proxy", "manager", "worker2">>
        /\ net[q2].path = <<>>
        /\ net[q2].last = [src |-> "internet", dst |-> "manager", port |-> 5000,
                           admitted |-> FALSE]

\* The calls the trusted host has made to the proxy for request r.
RelayCalls(r) == Events(r, LAMBDA e : e.by = "trusted_host" /\ e.ev # "fail")

\* C17 (as claimed): the trusted host relays.  For a non-empty query it calls
\* the proxy once with the same query string, and what it returns is the
\* proxy's response, body and status unchanged; a get_mode or set_mode is
\* passed to the proxy once, with the same mode value, and the proxy's answer
\* is returned unchanged.
C17_TrustedHostPureRelay ==
    \A r \in Req :
        (req[r].entry = "trusted_host" /\ pc[r]["trusted_host"] \in {"wait", "done"}
            /\ (req[r].op = "query" => ~MissingOrEmpty(inp[r]["trusted_host"])))
        =>
        /\ Cardinality(RelayCalls(r)) = 1
        /\ \A i \in RelayCalls(r) :
              /\ trace[r][i].node = "proxy"
              /\ req[r].op = "query" => trace[r][i].info = inp[r]["trusted_host"].val
        /\ pc[r]["proxy"] # "idle" =>
              IF req[r].op = "query"
              THEN inp[r]["proxy"] = [has |-> TRUE, val |-> inp[r]["trusted_host"].val]
              ELSE ModeGet(inp[r]["proxy"]) = ModeGet(inp[r]["trusted_host"])
        /\ (pc[r]["trusted_host"] = "done" /\ pc[r]["proxy"] = "done") =>
              /\ ret[r]["trusted_host"].status = ret[r]["proxy"].status
              /\ ret[r]["trusted_host"].body = ret[r]["proxy"].body

\* The forwards of request r by the proxy that failed with a transport error.
ForwardFails(r) == Events(r, LAMBDA e : e.by = "proxy" /\ e.ev = "fail")

\* C18: the proxy sends the query of a request to at most one node, the
\* target it selected; when that forward fails with a transport error the
\* handler ends there: nothing else is sent or probed afterwards, no data node
\* has handled the request, and the proxy's caller gets a 5xx error body (the
\* trusted host passes the same on).
C18_OneTargetNoRetry ==
    \A r \in Req :
        /\ Cardinality(SendsBy(r, "proxy")) <= 1
        /\ \A i \in SendsBy(r, "proxy") : trace[r][i].node = loc[r].target
        /\ \A i \in ForwardFails(r) :
              /\ \A j \in DOMAIN trace[r] : j > i => trace[r][j].by # "proxy"
              /\ \A j \in DOMAIN trace[r] : trace[r][j].by \notin {"manager", "worker1", "worker2"}
              /\ pc[r]["manager"] = "idle"
              /\ pc[r]["proxy"] = "done"
              /\ ret[r]["proxy"].status \in 500..599
              /\ "error" \in DOMAIN ret[r]["proxy"].body
              /\ req[r].entry = "trusted_host" =>
                    /\ pc[r]["trusted_host"] = "done"
                    /\ ret[r]["trusted_host"] = ret[r]["proxy"]

\* C18 witness: a READ sent through the trusted host under CUSTOMIZED was
\* forwarded to the second worker, the forward failed, and the caller got
\* 500 while the first worker was never sent the query.
C18_Witness ==
    \E r \in Req :
        /\ req[r].entry = "trusted_host"
        /\ loc[r].branch = "CUSTOMIZED"
        /\ loc[r].target = "worker2"
        /\ ForwardFails(r) # {}
        /\ Cardinality(SendsBy(r, "proxy")) = 1
        /\ ret[r]["trusted_host"].status = 500

\* C19 (as claimed): once the manager has committed the write of a request in
\* its own engine, it eventually responds to its caller, whatever the workers
\* do with the replication calls.
C19_ManagerEventuallyResponds ==
    \A r \in Req :
        (pc[r]["manager"] \in {"replicate", "blocked"}) ~> (pc[r]["manager"] = "done")

\* The requests whose write the manager has committed in its own engine.
CommittedRequests == {r \in Req : ManagerCommitted(r)}

\* C20: a write the manager has committed stays in the manager's state: the
\* manager's engine holds exactly one row per committed request, that
\* request's query, whether replication is under way, stuck, failed (the
\* manager answered 500) or complete (it answered 200); and no step removes
\* or alters a row of the manager's engine.
C20_NoRollback ==
    /\ [](/\ Len(db["manager"]) = Cardinality(CommittedRequests)
          /\ \A r \in CommittedRequests :
                \E i \in DOMAIN db["manager"] : db["manager"][i] = inp[r]["manager"].val)
    /\ [][ /\ Len(db'["manager"]) >= Len(db["manager"])
           /\ SubSeq(db'["manager"], 1, Len(db["manager"])) = db["manager"] ]_vars

\* C20 witness: the manager committed a write, the replication call to the
\* first worker failed, the manager answered 500, and the write is still in
\* the manager's engine while no worker has it.
C20_Witness ==
    \E r \in Req :
        /\ ManagerCommitted(r)
        /\ pc[r]["manager"] = "done"
        /\ ret[r]["manager"].status = 500
        /\ Events(r, LAMBDA e : e.by = "manager" /\ e.ev = "fail" /\ e.node = "worker1") # {}
        /\ db["manager"] = <<QInsert>>
        /\ db["worker1"] = <<>> /\ db["worker2"] = <<>>

\* ---- order of the steps of one manager write

\* The replication calls of request r, in the order the manager issued them.
ManagerSends(r) ==
    SelectSeq(trace[r], LAMBDA e : e.by = "manager" /\ e.ev = "send")

\* The local execution of request r failed at the manager.
ManagerLocalFailure(r) ==
    Events(r, LAMBDA e : e.by = "manager" /\ e.ev \in {"connfail", "execfail"}) # {}

\* C21: within one manager WRITE request the local execute and commit come
\* before every replication call; the calls go to the workers in registry
\* order, one at a time (the worker called has answered before the next call
\* is sent); the success response is returned only when the local execution
\* has succeeded; and when the local execution fails no worker is called.
C21_WriteStepsInOrder ==
    \A r \in Req :
        LET sends == SendsBy(r, "manager")
            commits == Events(r, LAMBDA e : e.by = "manager" /\ e.ev = "commit")
        IN
        /\ \A i \in sends : \E c \in commits : c < i
        /\ Cardinality(commits) <= 1
        /\ Len(ManagerSends(r)) <= Len(WorkersInOrder)
        /\ \A k \in DOMAIN ManagerSends(r) :
              /\ ManagerSends(r)[k].node = WorkersInOrder[k]
              /\ ManagerSends(r)[k].info = inp[r]["manager"].val
        /\ \A i \in sends : \A j \in sends :
              i < j => \E k \in (i + 1)..(j - 1) :
                          /\ trace[r][k].by = trace[r][i].node
                          /\ trace[r][k].ev \in {"commit", "execfail", "connfail"}
        /\ (pc[r]["manager"] = "done" /\ ret[r]["manager"] = WriteSuccess)
              => /\ commits # {}
                 /\ inp[r]["manager"].val \in Range(db["manager"])
                 /\ Len(ManagerSends(r)) = Len(WorkersInOrder)
        /\ ManagerLocalFailure(r)
              => /\ sends = {}
                 /\ commits = {}
                 /\ Events(r, LAMBDA e : e.by \in WorkerNodes) = {}
                 /\ pc[r]["manager"] = "done"
                 /\ ret[r]["manager"].status = 500

\* C21 witness: one write has been committed, replicated to the first and
\* then to the second worker and answered with success, while the local
\* execution of another write failed at the manager.
C21_Witness ==
    \E r \in Req : \E q \in Req :
        /\ pc[r]["manager"] = "done"
        /\ ret[r]["manager"] = WriteSuccess
        /\ Len(ManagerSends(r)) = 2
        /\ ManagerLocalFailure(q)
        /\ ManagerIsWriteQuery(inp[q]["manager"].val)

\* ---- concurrent writes

\* Write a is before write b in the rows of data node n.
AppliedBefore(n, a, b) ==
    \E i \in DOMAIN db[n] : \E j \in DOMAIN db[n] :
        i < j /\ db[n][i] = a /\ db[n][j] = b

\* C22: nothing orders the WRITE requests the manager handles concurrently:
\* a request that has arrived can start its local execution and a request
\* that has committed can take its next replication step, whatever the other
\* requests are doing, so the order of two writes at a worker is the order in
\* which their replication calls happen to arrive.
C22_NoOrderAcrossWrites ==
    \A r \in Req :
        /\ pc[r]["manager"] = "called" => ENABLED MgQuery(r)
        /\ pc[r]["manager"] = "replicate" => ENABLED (MgReplicate(r) \/ MgReturn(r))

\* C22 witness: two writes handled concurrently by the manager are in one
\* order at the manager and worker2 and in the other order at worker1.
C22_Witness ==
    \E a \in Req : \E b \in Req :
        /\ a # b
        /\ req[a].entry = "manager" /\ req[b].entry = "manager"
        /\ inp[a]["manager"].val = QInsert /\ inp[b]["manager"].val = QUpdate
        /\ pc[a]["manager"] = "done" /\ ret[a]["manager"] = WriteSuccess
        /\ pc[b]["manager"] = "done" /\ ret[b]["manager"] = WriteSuccess
        /\ AppliedBefore("manager", QInsert, QUpdate)
        /\ AppliedBefore("worker1", QUpdate, QInsert)
        /\ AppliedBefore("worker2", QInsert, QUpdate)

\* ---- calls made by the data tier

\* What a data node does in its own engine.
EngineEvents == {"open", "commit", "read", "autocommit", "execfail", "connfail", "close"}

\* C23: the only calls the data tier makes are the manager's replication
\* calls, to workers, of a query that leads with a write keyword and that the
\* manager has committed; a READ handled by the manager sends nothing, and a
\* worker, for a READ or a WRITE, acts on its own engine only.
C23_OnlyManagerReplicates ==
    \A r \in Req :
        /\ \A i \in DOMAIN trace[r] :
              LET e == trace[r][i] IN
              /\ e.by \in WorkerNodes => e.node = e.by /\ e.ev \in EngineEvents
              /\ e.by = "manager" =>
                    \/ e.node = "manager" /\ e.ev \in EngineEvents
                    \/ /\ e.ev \in {"send", "fail", "hang"}
                       /\ e.node \in WorkerNodes
                       /\ e.info = inp[r]["manager"].val
                       /\ LeadsWithWriteKeyword(e.info)
                       /\ \E c \in 1..(i - 1) :
                             trace[r][c] = Ev("manager", "commit", "manager", e.info)
        /\ (pc[r]["manager"] # "idle" /\ ~LeadsWithWriteKeyword(inp[r]["manager"].val))
              => /\ SendsBy(r, "manager") = {}
                 /\ Events(r, LAMBDA e : e.by \in WorkerNodes) = {}
                 /\ pc[r]["manager"] \in {"called", "done"}

\* C23 witness: the manager has answered a READ with its rows, and a worker
\* has committed a WRITE a client sent to it; neither has called any node.
C23_Witness ==
    \E r \in Req : \E q \in Req :
        /\ inp[r]["manager"].val = QSelect
        /\ pc[r]["manager"] = "done"
        /\ ret[r]["manager"].status = 200
        /\ req[q].entry \in WorkerNodes
        /\ pc[q]["worker"] = "done"
        /\ Events(q, LAMBDA e : e.by = req[q].entry /\ e.ev = "commit") # {}
        /\ SendsBy(r, "manager") = {} /\ SendsBy(q, req[q].entry) = {}

\* ---- transport failures at the relay

\* The trusted host's call to the proxy for request r failed in transport.
RelayTransportFailure(r) ==
    Events(r, LAMBDA e : e.by = "trusted_host" /\ e.ev = "fail") # {}

\* C24 (as claimed): when the trusted host's call to the proxy fails in
\* transport, the caller gets a 5xx response whose body is {"error": message},
\* for handleQuery, getPolicy and setPolicy alike.
C24_RelayFailureIsErrorEnvelope ==
    \A r \in Req :
        (req[r].entry = "trusted_host" /\ RelayTransportFailure(r))
        =>
        /\ pc[r]["trusted_host"] = "done"
        /\ ret[r]["trusted_host"].status \in 500..599
        /\ IsJson(ret[r]["trusted_host"].body)
        /\ IsErrorBody(ret[r]["trusted_host"].body)

\* ---- data-engine connections

\* The connections node n opened, and closed, while serving request r.
Opens(r, n) == Events(r, LAMBDA e : e.by = n /\ e.ev = "open")

Closes(r, n) == Events(r, LAMBDA e : e.by = n /\ e.ev = "close")

\* The requests whose handler at the manager is between its commit and its
\* return.
InManagerHandler == {r \in Req : pc[r]["manager"] \in {"replicate", "blocked"}}

\* C25: a /query request that opens a data-engine connection at the manager
\* or at a worker closes it before the request ends, on every exit path; each
\* connection belongs to one request, is closed once, after it was opened,
\* and the connections open at the manager are exactly those of the requests
\* it is still serving.
C25_ConnectionsReleased ==
    /\ \A r \in Req : \A n \in DataNodes :
          /\ \A c \in Closes(r, n) : \E o \in Opens(r, n) :
                /\ o < c
                /\ \A k \in (o + 1)..(c - 1) :
                      ~(trace[r][k].by = n /\ trace[r][k].ev \in {"open", "close"})
          /\ Cardinality(Closes(r, n)) <= Cardinality(Opens(r, n))
          /\ n \in WorkerNodes => Cardinality(Closes(r, n)) = Cardinality(Opens(r, n))
          /\ (n = "manager" /\ r \notin InManagerHandler)
                => Cardinality(Closes(r, n)) = Cardinality(Opens(r, n))
          /\ (n = "manager" /\ r \in InManagerHandler)
                => Cardinality(Opens(r, n)) = Cardinality(Closes(r, n)) + 1
    /\ conns["manager"] = Cardinality(InManagerHandler)
    /\ \A w \in WorkerNodes : conns[w] = 0

\* C25 witness: one write has ended at the manager with a replication
\* transport error and another request has ended with an execution error at
\* a worker; each opened a connection, and none is open.
C25_Witness ==
    \E r \in Req : \E q \in Req :
        /\ pc[r]["manager"] = "done"
        /\ Events(r, LAMBDA e : e.by = "manager" /\ e.ev = "fail") # {}
        /\ Opens(r, "manager") # {}
        /\ \E w \in WorkerNodes :
              /\ Events(q, LAMBDA e : e.by = w /\ e.ev = "execfail") # {}
              /\ Opens(q, w) # {}
        /\ pc[q]["manager"] \in {"idle", "done"}
        /\ conns = [n \in DataNodes |-> 0]

\* ---- origin of the writes a worker holds

\* How many times write q is in rows.
Occurrences(rows, q) == Cardinality({i \in DOMAIN rows : rows[i] = q})

\* The inbound rules let a client of the cluster (an external caller, or the
\* gatekeeper it has to go through) connect to the service port of `entry`.
ClientAdmitted(entry) ==
    Admits(entry, Internet, ServicePort) \/ Admits(entry, "gatekeeper", ServicePort)

\* Every request sent so far entered at a node the rules admit it to.
RulesRespected == \A r \in Req : req[r] # NoReq => ClientAdmitted(req[r].entry)

\* C26: under the installed access rules the writes a worker holds are among
\* the writes the manager has committed (each as many times at most); a
\* worker commits a write only on a replication call of the manager, and the
\* manager sends that call only after its own commit of the same write.
C26_WorkerWritesFromManager ==
    RulesRespected =>
        /\ \A w \in WorkerNodes : \A q \in Range(db[w]) :
              Occurrences(db[w], q) <= Occurrences(db["manager"], q)
        /\ \A r \in Req : \A i \in DOMAIN trace[r] :
              (trace[r][i].by \in WorkerNodes /\ trace[r][i].ev = "commit") =>
                  LET w == trace[r][i].by
                      q == trace[r][i].info
                  IN
                  /\ i > 2
                  /\ trace[r][i - 2] = Ev("manager", "send", w, q)
                  /\ \E c \in 1..(i - 3) :
                        trace[r][c] = Ev("manager", "commit", "manager", q)

\* C26 witness: two requests entered at the trusted host; the write is held
\* by the manager and by worker1, where replication then failed, so worker2
\* does not hold it; the other request was a READ served by a worker.
C26_Witness ==
    \E r \in Req : \E q \in Req :
        /\ RulesRespected
        /\ req[r].entry = "trusted_host" /\ req[q].entry = "trusted_host"
        /\ db["manager"] = <<QInsert>>
        /\ db["worker1"] = <<QInsert>>
        /\ db["worker2"] = <<>>
        /\ pc[r]["trusted_host"] = "done"
        /\ Events(q, LAMBDA e : e.by \in WorkerNodes /\ e.ev = "read") # {}

\* ---- what the proxy forwards to a worker

\* The events at which a worker changed its data while serving request r.
WorkerChanges(r) ==
    Events(r, LAMBDA e : e.by \in WorkerNodes /\ e.ev \in {"commit", "autocommit"})

\* C27 (as claimed): every query the proxy sends to a worker is classified
\* READ by the proxy and by the worker, and a request that goes through the
\* proxy changes a worker's data only in a replication call of the manager.
C27_ProxyNeverWritesToWorker ==
    \A r \in Req :
        /\ \A i \in SendsBy(r, "proxy") :
              trace[r][i].node \in WorkerNodes =>
                  /\ ~ProxyIsWriteQuery(trace[r][i].info)
                  /\ ~WorkerIsWriteQuery(trace[r][i].info)
        /\ ProxyRoutes(r) =>
              \A i \in WorkerChanges(r) :
                  /\ i > 2
                  /\ trace[r][i - 2] = Ev("manager", "send", trace[r][i].by, trace[r][i].info)

\* ---- no retry

\* The times node n executed the query of request r in its engine.
Executions(r, n) ==
    Events(r, LAMBDA e : e.by = n /\ e.ev \in {"commit", "read", "autocommit", "execfail"})

\* The calls of request r that node `by` sent after one of its calls failed.
SendsAfterFailure(r, by) ==
    {i \in SendsBy(r, by) :
        \E f \in DOMAIN trace[r] :
            f < i /\ trace[r][f].by = by /\ trace[r][f].ev \in {"fail", "hang"}}

\* C28: a request is executed at most once per node: the manager executes
\* and commits it at most once and sends each worker at most one replication
\* call, each worker executes it at most once, the trusted host and the proxy
\* send it at most once, and no layer sends anything after a call of its own
\* has failed.
C28_AtMostOncePerNode ==
    \A r \in Req :
        /\ \A n \in DataNodes : Cardinality(Executions(r, n)) <= 1
        /\ \A w \in WorkerNodes :
              Cardinality({i \in SendsBy(r, "manager") : trace[r][i].node = w}) <= 1
        /\ Cardinality(SendsBy(r, "trusted_host")) <= 1
        /\ Cardinality(SendsBy(r, "proxy")) <= 1
        /\ \A by \in {"trusted_host", "proxy", "manager"} : SendsAfterFailure(r, by) = {}
        /\ Occurrences(db["manager"], inp[r]["manager"].val)
              <= Cardinality({q \in Req : inp[q]["manager"].val = inp[r]["manager"].val})

\* C28 witness: a WRITE that entered at the trusted host was executed once
\* at the manager and once at each worker, and the replication of another
\* write stopped at its first failed call.
C28_Witness ==
    \E r \in Req : \E q \in Req :
        /\ req[r].entry = "trusted_host"
        /\ pc[r]["trusted_host"] = "done"
        /\ Cardinality(Executions(r, "manager")) = 1
        /\ \A w \in WorkerNodes : Cardinality(Executions(r, w)) = 1
        /\ Cardinality(SendsBy(r, "manager")) = 2
        /\ pc[q]["manager"] = "done"
        /\ Events(q, LAMBDA e : e.by = "manager" /\ e.ev = "fail") # {}
        /\ Cardinality(SendsBy(q, "manager")) = 1

\* ---- reads under RANDOM and CUSTOMIZED

\* Request r is a READ for which the proxy took the RANDOM or the
\* CUSTOMIZED branch.
WorkerPolicyRead(r) == ProxyRead(r) /\ loc[r].branch \in {"RANDOM", "CUSTOMIZED"}

\* C29: a READ that the proxy routes under RANDOM or CUSTOMIZED is never
\* served by the manager: its target is a worker, the manager's handler does
\* not run for it, and under CUSTOMIZED with every probe failed the target is
\* the first worker of the registry, to which the query is still forwarded;
\* when the forward fails the answer is an error, with no other call made.
C29_ReadNeverFallsBackToManager ==
    \A r \in Req :
        WorkerPolicyRead(r) =>
            /\ loc[r].target \in Range(WorkerIps)
            /\ \A i \in SendsBy(r, "proxy") : trace[r][i].node = loc[r].target
            /\ pc[r]["manager"] = "idle"
            /\ Events(r, LAMBDA e : e.by = "manager" \/ e.node = "manager") = {}
            /\ (pc[r]["proxy"] = "done" /\ "handled_by" \in DOMAIN ret[r]["proxy"].body)
                  => ret[r]["proxy"].body.handled_by = loc[r].target
            /\ (loc[r].branch = "CUSTOMIZED" /\ Reachable(r) = {}) =>
                  /\ loc[r].target = WorkerIps[1]
                  /\ pc[r]["proxy"] = "done" =>
                        \E i \in SendsBy(r, "proxy") : trace[r][i].node = WorkerIps[1]
            /\ ForwardFails(r) # {} =>
                  /\ pc[r]["proxy"] = "done"
                  /\ ret[r]["proxy"].status \in 500..599
                  /\ IsErrorBody(ret[r]["proxy"].body)
                  /\ Cardinality(SendsBy(r, "proxy")) = 1

\* C29 witness: under CUSTOMIZED both probes failed, the READ was forwarded
\* to the first worker, the forward failed and the proxy answered 500.
C29_Witness ==
    \E r \in Req :
        /\ WorkerPolicyRead(r)
        /\ loc[r].branch = "CUSTOMIZED"
        /\ Reachable(r) = {}
        /\ pc[r]["proxy"] = "done"
        /\ \E i \in ForwardFails(r) : trace[r][i].node = WorkerIps[1]
        /\ ret[r]["proxy"].status = 500
        /\ pc[r]["manager"] = "idle"

\* ---- termination of a request that enters at the trusted host

\* The depth of a node in the chain of calls.
CallRank(node) ==
    IF node = "trusted_host" THEN 1
    ELSE IF node = "proxy" THEN 2
    ELSE IF node = "manager" THEN 3
    ELSE IF node \in WorkerNodes THEN 4
    ELSE 0

\* The calls of request r: the events at which a node contacted another one.
Calls(r) ==
    Events(r, LAMBDA e : e.ev \in {"send", "probe", "get_mode", "set_mode"})

\* Every call goes down the chain (trusted host, proxy, manager, worker), and
\* each handler has made at most one forward, one probe per worker and one
\* replication call per worker.
BoundedCalls ==
    \A r \in Req :
        /\ \A i \in Calls(r) : CallRank(trace[r][i].by) < CallRank(trace[r][i].node)
        /\ Cardinality(Events(r, LAMBDA e : e.by = "trusted_host" /\ e.ev # "fail")) <= 1
        /\ Cardinality(SendsBy(r, "proxy")) <= 1
        /\ \A w \in WorkerNodes :
              /\ Cardinality({i \in Probes(r) : trace[r][i].node = w}) <= 1
              /\ Cardinality({i \in SendsBy(r, "manager") : trace[r][i].node = w}) <= 1

\* C30: when every node answers the requests it receives (no replication
\* call is left unanswered) and every probe answers or times out, a query or
\* policy request that has arrived at the trusted host eventually gets its
\* response; calls only go down the chain and each handler makes a bounded
\* number of them.
C30_TrustedHostRequestTerminates ==
    /\ \A r \in Followed :
          (pc[r]["trusted_host"] = "called")
              ~> (pc[r]["trusted_host"] = "done" \/ pc[r]["manager"] = "blocked")
    /\ []BoundedCalls

\* C30 witness: a WRITE that entered at the trusted host has been answered
\* after the proxy's forward and the manager's replication to both workers.
C30_Witness ==
    \E r \in Followed :
        /\ req[r].entry = "trusted_host"
        /\ pc[r]["trusted_host"] = "done"
        /\ ret[r]["trusted_host"].status = 200
        /\ Cardinality(Calls(r)) = 4
        /\ Cardinality(SendsBy(r, "manager")) = 2
        /\ conns["manager"] = 0

====
